---- MODULE Spec2Model ----
(***************************************************************************)
(* Model of ModernTurkishPOSTagger (src/modern_pos_tagger.py): loading of  *)
(* the backend at construction, tag, batch_tag, get_model_info and the two *)
(* rule tables; and of the facade cache and the tagging handlers of the    *)
(* web service (src/web_service.py).                                       *)
(*                                                                         *)
(* Text is modelled as a sequence of characters, each character a string.  *)
(* Characters outside ASCII are written with two-letter names:             *)
(*   cc  c with cedilla      CC  its capital                               *)
(*   sc  s with cedilla      SC  its capital                               *)
(*   gb  g with breve        GB  its capital                               *)
(*   ou  o with diaeresis    OU  its capital                               *)
(*   uu  u with diaeresis    UU  its capital                               *)
(*   i0  dotless small i     I1  capital I with dot above                  *)
(*   dot the combining dot above (U+0307)                                  *)
(***************************************************************************)
EXTENDS Integers, Sequences, FiniteSets, TLC

\* ------------------------------------------------------------------ bounds
\* Longest sentence drawn as input to tag, in whitespace-separated words.
MaxWords == 2
\* Longest pipeline output drawn for the fine-tuned backend, in entries.
MaxEntries == 2
\* Longest list drawn as input to batch_tag.
MaxBatch == 2

\* -------------------------------------------------------------------- text
\* Characters str.split() and str.strip() treat as whitespace.
Whitespace == {" ", "\t"}

UpperLetters ==
    <<"A", "B", "C", "D", "E", "F", "G", "H", "I", "J", "K", "L", "M",
      "N", "O", "P", "Q", "R", "S", "T", "U", "V", "W", "X", "Y", "Z",
      "CC", "SC", "GB", "OU", "UU">>

LowerLetters ==
    <<"a", "b", "c", "d", "e", "f", "g", "h", "i", "j", "k", "l", "m",
      "n", "o", "p", "q", "r", "s", "t", "u", "v", "w", "x", "y", "z",
      "cc", "sc", "gb", "ou", "uu">>

Digits == {"0", "1", "2", "3", "4", "5", "6", "7", "8", "9"}

\* str.isupper() of one character.
IsUpperChar(c) ==
    c = "I1" \/ \E k \in DOMAIN UpperLetters : UpperLetters[k] = c

\* str.lower() of one character: a sequence, because the capital dotted I
\* lowers to two code points (i followed by the combining dot).
LowerChar(c) ==
    IF c = "I1" THEN <<"i", "dot">>
    ELSE IF \E k \in DOMAIN UpperLetters : UpperLetters[k] = c
         THEN <<LowerLetters[CHOOSE k \in DOMAIN UpperLetters : UpperLetters[k] = c]>>
         ELSE <<c>>

RECURSIVE Lower(_)
\* str.lower()
Lower(w) ==
    IF w = <<>> THEN <<>> ELSE LowerChar(Head(w)) \o Lower(Tail(w))

IsSubstrCharwise(a, b) ==
    \A k \in DOMAIN a : \E i \in DOMAIN b : b[i] = a[k]

\* a in b, for two strings
IsSubstr(a, b) ==
    \E i \in 0..(Len(b) - Len(a)) : SubSeq(b, i + 1, i + Len(a)) = a

\* w.endswith(suf)
EndsWith(w, suf) ==
    /\ Len(w) >= Len(suf)
    /\ SubSeq(w, Len(w) - Len(suf) + 1, Len(w)) = suf

\* w.endswith(tuple of suffixes)
EndsWithAny(w, sufs) == \E suf \in sufs : EndsWith(w, suf)

\* str.isdigit()
IsDigit(w) == w # <<>> /\ \A k \in DOMAIN w : w[k] \in Digits

RECURSIVE SplitAcc(_, _, _)
SplitAcc(s, cur, acc) ==
    IF s = <<>>
    THEN IF cur = <<>> THEN acc ELSE Append(acc, cur)
    ELSE IF Head(s) \in Whitespace
         THEN SplitAcc(Tail(s), <<>>, IF cur = <<>> THEN acc ELSE Append(acc, cur))
         ELSE SplitAcc(Tail(s), Append(cur, Head(s)), acc)

\* str.split(): the maximal runs of non-whitespace characters, in order.
Split(s) == SplitAcc(s, <<>>, <<>>)

RECURSIVE LStrip(_)
LStrip(s) ==
    IF s # <<>> /\ Head(s) \in Whitespace THEN LStrip(Tail(s)) ELSE s

RECURSIVE RStrip(_)
RStrip(s) ==
    IF s # <<>> /\ s[Len(s)] \in Whitespace
    THEN RStrip(SubSeq(s, 1, Len(s) - 1))
    ELSE s

\* str.strip()
Strip(s) == RStrip(LStrip(s))

\* ------------------------------------------------------------- rule tables
\* The literal '.,!?;:()[]{}"\'' both rule tables test membership in.
\* Variant: the literal without the full stop.
PunctuationLiteralNoPeriod ==
    <<",", "!", "?", ";", ":", "(", ")", "[", "]", "{", "}", "\"", "'">>

PunctuationLiteral ==
    <<".", ",", "!", "?", ";", ":", "(", ")", "[", "]", "{", "}", "\"", "'">>

\* _get_enhanced_pos_tag, lines 302-304
EnhPronouns ==
    {
      <<"b", "e", "n">>, <<"s", "e", "n">>, <<"o">>,
      <<"b", "i", "z">>, <<"s", "i", "z">>, <<"o", "n", "l", "a", "r">>,
      <<"b", "u">>, <<"sc", "u">>, <<"b", "u", "n", "l", "a", "r">>,
      <<"sc", "u", "n", "l", "a", "r">>, <<"b", "u", "n", "u">>, <<"sc", "u", "n", "u">>,
      <<"o", "n", "u">>, <<"b", "e", "n", "i", "m">>, <<"s", "e", "n", "i", "n">>,
      <<"o", "n", "u", "n">>, <<"b", "i", "z", "i", "m">>, <<"s", "i", "z", "i", "n">>,
      <<"o", "n", "l", "a", "r", "i0", "n">>, <<"b", "a", "n", "a">>, <<"s", "a", "n", "a">>,
      <<"o", "n", "a">>, <<"b", "i", "z", "e">>, <<"s", "i", "z", "e">>,
      <<"o", "n", "l", "a", "r", "a">> }

\* _get_enhanced_pos_tag, lines 308-308
EnhConjunctions ==
    {
      <<"v", "e">>, <<"i", "l", "e">>, <<"a", "m", "a">>,
      <<"f", "a", "k", "a", "t">>, <<"cc", "uu", "n", "k", "uu">>, <<"k", "i">>,
      <<"d", "a">>, <<"d", "e">>, <<"t", "a">>,
      <<"t", "e">>, <<"a", "n", "c", "a", "k">> }

\* _get_enhanced_pos_tag, lines 312-313
EnhAdverbs ==
    {
      <<"cc", "o", "k">>, <<"a", "z">>, <<"d", "a", "h", "a">>,
      <<"e", "n">>, <<"sc", "i", "m", "d", "i">>, <<"s", "o", "n", "r", "a">>,
      <<"ou", "n", "c", "e">>, <<"b", "u", "g", "uu", "n">>, <<"y", "a", "r", "i0", "n">>,
      <<"d", "uu", "n">>, <<"h", "e", "p">>, <<"h", "i", "cc">>,
      <<"h", "e", "r">>, <<"b", "a", "z", "e", "n">>, <<"g", "e", "n", "e", "l", "l", "i", "k", "l", "e">>,
      <<"z", "a", "t", "e", "n">>, <<"a", "r", "t", "i0", "k">>, <<"h", "e", "m", "e", "n">> }

\* _get_enhanced_pos_tag, lines 317-317
EnhPostpositions ==
    {
      <<"i", "cc", "i", "n">>, <<"g", "i", "b", "i">>, <<"k", "a", "d", "a", "r">>,
      <<"b", "e", "r", "i">>, <<"s", "o", "n", "r", "a">>, <<"ou", "n", "c", "e">>,
      <<"k", "a", "r", "sc", "i0">>, <<"r", "a", "gb", "m", "e", "n">> }

\* _get_enhanced_pos_tag, lines 321-326
EnhVerbSuffixes ==
    {
      <<"y", "o", "r">>, <<"i0", "y", "o", "r">>, <<"i", "y", "o", "r">>,
      <<"u", "y", "o", "r">>, <<"uu", "y", "o", "r">>, <<"d", "u">>,
      <<"d", "i0">>, <<"t", "u">>, <<"t", "i0">>,
      <<"d", "uu">>, <<"d", "i">>, <<"e", "c", "e", "k">>,
      <<"a", "c", "a", "k">>, <<"m", "i", "sc">>, <<"m", "u", "sc">>,
      <<"m", "uu", "sc">>, <<"m", "i0", "sc">>, <<"s", "a">>,
      <<"s", "e">>, <<"m", "a", "k">>, <<"m", "e", "k">> }

\* _get_enhanced_pos_tag, lines 330-330
EnhAblSuffixes ==
    {
      <<"i0", "n", "d", "a", "n">>, <<"i", "n", "d", "e", "n">>, <<"u", "n", "d", "a", "n">>,
      <<"uu", "n", "d", "e", "n">> }

\* _get_enhanced_pos_tag, lines 332-332
EnhDatSuffixes ==
    {
      <<"i0", "n", "a">>, <<"i", "n", "e">>, <<"u", "n", "a">>,
      <<"uu", "n", "e">> }

\* _get_enhanced_pos_tag, lines 334-334
EnhAccSuffixes ==
    {
      <<"i0", "n", "i0">>, <<"i", "n", "i">>, <<"u", "n", "u">>,
      <<"uu", "n", "uu">> }

\* _get_enhanced_pos_tag, lines 336-336
EnhGenSuffixes ==
    {
      <<"i0", "n">>, <<"i", "n">>, <<"u", "n">>,
      <<"uu", "n">> }

\* _get_enhanced_pos_tag, lines 338-338
EnhLocSuffixes ==
    {
      <<"d", "a">>, <<"d", "e">>, <<"t", "a">>,
      <<"t", "e">> }

\* _get_enhanced_pos_tag, lines 342-343
EnhAdjSuffixes ==
    {
      <<"l", "i0">>, <<"l", "i">>, <<"l", "u">>,
      <<"l", "uu">>, <<"s", "i0", "z">>, <<"s", "i", "z">>,
      <<"s", "u", "z">>, <<"s", "uu", "z">> }

\* _get_enhanced_pos_tag, lines 344-344
EnhAdjectives ==
    {
      <<"g", "uu", "z", "e", "l">>, <<"b", "uu", "y", "uu", "k">>, <<"k", "uu", "cc", "uu", "k">>,
      <<"i", "y", "i">>, <<"k", "ou", "t", "uu">>, <<"y", "e", "n", "i">>,
      <<"e", "s", "k", "i">> }

\* _get_simple_pos_tag, lines 380-381
SimpleProperNouns ==
    {
      <<"a", "l", "i">>, <<"m", "e", "h", "m", "e", "t">>, <<"a", "y", "sc", "e">>,
      <<"f", "a", "t", "m", "a">>, <<"a", "h", "m", "e", "t">>, <<"z", "e", "y", "n", "e", "p">>,
      <<"e", "m", "r", "e">>, <<"e", "l", "i", "f">>, <<"m", "u", "r", "a", "t">>,
      <<"s", "e", "l", "i", "n">>, <<"t", "uu", "r", "k", "i", "y", "e">>, <<"i", "s", "t", "a", "n", "b", "u", "l">>,
      <<"a", "n", "k", "a", "r", "a">>, <<"i", "z", "m", "i", "r">>, <<"b", "u", "r", "s", "a">>,
      <<"a", "n", "t", "a", "l", "y", "a">>, <<"a", "d", "a", "n", "a">>, <<"g", "a", "z", "i", "a", "n", "t", "e", "p">> }

\* _get_simple_pos_tag, lines 386-388
SimplePronouns ==
    {
      <<"b", "e", "n">>, <<"s", "e", "n">>, <<"o">>,
      <<"b", "i", "z">>, <<"s", "i", "z">>, <<"o", "n", "l", "a", "r">>,
      <<"b", "u">>, <<"sc", "u">>, <<"b", "u", "n", "l", "a", "r">>,
      <<"sc", "u", "n", "l", "a", "r">>, <<"b", "u", "n", "u">>, <<"sc", "u", "n", "u">>,
      <<"o", "n", "u">>, <<"b", "e", "n", "i", "m">>, <<"s", "e", "n", "i", "n">>,
      <<"o", "n", "u", "n">>, <<"b", "i", "z", "i", "m">>, <<"s", "i", "z", "i", "n">>,
      <<"o", "n", "l", "a", "r", "i0", "n">>, <<"b", "a", "n", "a">>, <<"s", "a", "n", "a">>,
      <<"o", "n", "a">>, <<"b", "i", "z", "e">>, <<"s", "i", "z", "e">>,
      <<"o", "n", "l", "a", "r", "a">> }

\* _get_simple_pos_tag, lines 392-392
SimpleConjunctions ==
    {
      <<"v", "e">>, <<"i", "l", "e">>, <<"a", "m", "a">>,
      <<"f", "a", "k", "a", "t">>, <<"cc", "uu", "n", "k", "uu">>, <<"k", "i">>,
      <<"d", "a">>, <<"d", "e">>, <<"t", "a">>,
      <<"t", "e">>, <<"a", "n", "c", "a", "k">>, <<"l", "a", "k", "i", "n">> }

\* _get_simple_pos_tag, lines 396-398
SimpleAdverbs ==
    {
      <<"cc", "o", "k">>, <<"a", "z">>, <<"d", "a", "h", "a">>,
      <<"e", "n">>, <<"sc", "i", "m", "d", "i">>, <<"s", "o", "n", "r", "a">>,
      <<"ou", "n", "c", "e">>, <<"b", "u", "g", "uu", "n">>, <<"y", "a", "r", "i0", "n">>,
      <<"d", "uu", "n">>, <<"h", "e", "p">>, <<"h", "i", "cc">>,
      <<"h", "e", "r", " ", "z", "a", "m", "a", "n">>, <<"b", "a", "z", "e", "n">>, <<"g", "e", "n", "e", "l", "l", "i", "k", "l", "e">>,
      <<"n", "a", "d", "i", "r", "e", "n">>, <<"z", "a", "t", "e", "n">>, <<"a", "r", "t", "i0", "k">>,
      <<"h", "e", "m", "e", "n">>, <<"y", "a", "v", "a", "sc">>, <<"h", "i0", "z", "l", "i0">>,
      <<"s", "e", "s", "s", "i", "z", "c", "e">>, <<"d", "i", "k", "k", "a", "t", "l", "i">> }

\* _get_simple_pos_tag, lines 402-402
SimplePostpositions ==
    {
      <<"i", "cc", "i", "n">>, <<"g", "i", "b", "i">>, <<"k", "a", "d", "a", "r">>,
      <<"b", "e", "r", "i">>, <<"s", "o", "n", "r", "a">>, <<"ou", "n", "c", "e">>,
      <<"k", "a", "r", "sc", "i0">>, <<"r", "a", "gb", "m", "e", "n">> }

\* _get_simple_pos_tag, lines 406-406
SimpleDeterminers ==
    {
      <<"b", "i", "r">>, <<"h", "i", "cc">>, <<"h", "e", "r">>,
      <<"b", "a", "z", "i0">>, <<"b", "uu", "t", "uu", "n">>, <<"t", "uu", "m">>,
      <<"k", "i", "m", "i">>, <<"h", "a", "n", "g", "i">> }

\* _get_simple_pos_tag, lines 410-410
SimpleNumberWords ==
    {
      <<"s", "i0", "f", "i0", "r">>, <<"b", "i", "r">>, <<"i", "k", "i">>,
      <<"uu", "cc">>, <<"d", "ou", "r", "t">>, <<"b", "e", "sc">>,
      <<"a", "l", "t", "i0">>, <<"y", "e", "d", "i">>, <<"s", "e", "k", "i", "z">>,
      <<"d", "o", "k", "u", "z">>, <<"o", "n">> }

\* _get_simple_pos_tag, lines 414-421
SimpleVerbSuffixes ==
    {
      <<"m", "a", "k">>, <<"m", "e", "k">>, <<"y", "o", "r">>,
      <<"i0", "y", "o", "r">>, <<"i", "y", "o", "r">>, <<"u", "y", "o", "r">>,
      <<"uu", "y", "o", "r">>, <<"d", "u">>, <<"d", "i0">>,
      <<"t", "u">>, <<"t", "i0">>, <<"e", "c", "e", "k">>,
      <<"a", "c", "a", "k">>, <<"m", "i", "sc">>, <<"m", "u", "sc">>,
      <<"m", "uu", "sc">>, <<"d", "i">>, <<"d", "uu">>,
      <<"s", "a">>, <<"s", "e">>, <<"s", "i", "n">>,
      <<"s", "i0", "n">>, <<"s", "u", "n">>, <<"s", "uu", "n">> }

\* _get_simple_pos_tag, lines 425-428
SimpleAdjSuffixes ==
    {
      <<"l", "i0">>, <<"l", "i">>, <<"l", "u">>,
      <<"l", "uu">>, <<"s", "i0", "z">>, <<"s", "i", "z">>,
      <<"s", "u", "z">>, <<"s", "uu", "z">>, <<"s", "a", "l">>,
      <<"s", "e", "l">>, <<"i", "k">>, <<"i0", "k">> }

\* _get_simple_pos_tag, lines 429-430
SimpleAdjectives ==
    {
      <<"g", "uu", "z", "e", "l">>, <<"b", "uu", "y", "uu", "k">>, <<"k", "uu", "cc", "uu", "k">>,
      <<"i", "y", "i">>, <<"k", "ou", "t", "uu">>, <<"y", "e", "n", "i">>,
      <<"e", "s", "k", "i">>, <<"g", "e", "n", "cc">>, <<"y", "a", "sc", "l", "i0">>,
      <<"u", "z", "u", "n">>, <<"k", "i0", "s", "a">>, <<"y", "uu", "k", "s", "e", "k">>,
      <<"a", "l", "cc", "a", "k">>, <<"g", "e", "n", "i", "sc">>, <<"d", "a", "r">>,
      <<"s", "i0", "c", "a", "k">>, <<"s", "o", "gb", "u", "k">> }

\* _get_simple_pos_tag, lines 434-436
SimpleCommonNouns ==
    {
      <<"a", "d", "a", "m">>, <<"k", "a", "d", "i0", "n">>, <<"cc", "o", "c", "u", "k">>,
      <<"a", "n", "n", "e">>, <<"b", "a", "b", "a">>, <<"k", "a", "r", "d", "e", "sc">>,
      <<"a", "r", "k", "a", "d", "a", "sc">>, <<"ou", "gb", "r", "e", "t", "m", "e", "n">>, <<"d", "o", "k", "t", "o", "r">>,
      <<"p", "o", "l", "i", "s">>, <<"e", "v">>, <<"o", "k", "u", "l">>,
      <<"h", "a", "s", "t", "a", "n", "e">>, <<"p", "a", "r", "k">>, <<"b", "a", "h", "cc", "e">>,
      <<"k", "i", "t", "a", "p">>, <<"m", "a", "s", "a">>, <<"s", "a", "n", "d", "a", "l", "y", "e">>,
      <<"a", "r", "a", "b", "a">>, <<"o", "t", "o", "b", "uu", "s">>, <<"u", "cc", "a", "k">>,
      <<"t", "r", "e", "n">>, <<"s", "u">>, <<"y", "e", "m", "e", "k">>,
      <<"e", "k", "m", "e", "k">> }

\* _get_enhanced_pos_tag(word)
EnhancedPosTagCaseFirst(word) ==
    LET word_lower == Lower(word) IN
    IF IsSubstr(word, PunctuationLiteral) THEN "Punc"
    ELSE IF EndsWithAny(word_lower, EnhAblSuffixes) THEN "Noun_Abl"
    ELSE IF EndsWithAny(word_lower, EnhDatSuffixes) THEN "Noun_Dat"
    ELSE IF EndsWithAny(word_lower, EnhAccSuffixes) THEN "Noun_Acc"
    ELSE IF EndsWithAny(word_lower, EnhGenSuffixes) THEN "Noun_Gen"
    ELSE IF EndsWithAny(word_lower, EnhLocSuffixes) THEN "Noun_Loc"
    ELSE IF word_lower \in EnhPronouns THEN "Pron"
    ELSE IF word_lower \in EnhConjunctions THEN "Conj"
    ELSE IF word_lower \in EnhAdverbs THEN "Adv"
    ELSE IF word_lower \in EnhPostpositions THEN "Postp"
    ELSE IF EndsWithAny(word_lower, EnhVerbSuffixes) THEN "Verb"
    ELSE IF \/ EndsWithAny(word_lower, EnhAdjSuffixes)
            \/ word_lower \in EnhAdjectives THEN "Adj"
    ELSE "Noun_Nom"

EnhancedPosTag(word) ==
    LET word_lower == Lower(word) IN
    IF IsSubstr(word, PunctuationLiteral) THEN "Punc"
    ELSE IF word_lower \in EnhPronouns THEN "Pron"
    ELSE IF word_lower \in EnhConjunctions THEN "Conj"
    ELSE IF word_lower \in EnhAdverbs THEN "Adv"
    ELSE IF word_lower \in EnhPostpositions THEN "Postp"
    ELSE IF EndsWithAny(word_lower, EnhVerbSuffixes) THEN "Verb"
    ELSE IF EndsWithAny(word_lower, EnhAblSuffixes) THEN "Noun_Abl"
    ELSE IF EndsWithAny(word_lower, EnhDatSuffixes) THEN "Noun_Dat"
    ELSE IF EndsWithAny(word_lower, EnhAccSuffixes) THEN "Noun_Acc"
    ELSE IF EndsWithAny(word_lower, EnhGenSuffixes) THEN "Noun_Gen"
    ELSE IF EndsWithAny(word_lower, EnhLocSuffixes) THEN "Noun_Loc"
    ELSE IF \/ EndsWithAny(word_lower, EnhAdjSuffixes)
            \/ word_lower \in EnhAdjectives THEN "Adj"
    ELSE "Noun_Nom"

SimplePosTagLaterListFirst(word) ==
    LET word_lower == Lower(word) IN
    IF IsSubstr(word, PunctuationLiteral) THEN "Punc"
    ELSE IF \/ word_lower \in SimpleProperNouns
            \/ (IsUpperChar(word[1]) /\ Len(word) > 2) THEN "Noun"
    ELSE IF word_lower \in SimplePronouns THEN "Pron"
    ELSE IF word_lower \in SimpleConjunctions THEN "Conj"
    ELSE IF IsDigit(word_lower) \/ word_lower \in SimpleNumberWords THEN "Num"
    ELSE IF word_lower \in SimpleDeterminers THEN "Det"
    ELSE IF word_lower \in SimplePostpositions THEN "Postp"
    ELSE IF word_lower \in SimpleAdverbs THEN "Adv"
    ELSE IF EndsWithAny(word_lower, SimpleVerbSuffixes) THEN "Verb"
    ELSE IF \/ EndsWithAny(word_lower, SimpleAdjSuffixes)
            \/ word_lower \in SimpleAdjectives THEN "Adj"
    ELSE IF word_lower \in SimpleCommonNouns THEN "Noun"
    ELSE "Noun"

\* _get_simple_pos_tag(word); word is never empty (it comes from split()).
SimplePosTag(word) ==
    LET word_lower == Lower(word) IN
    IF IsSubstr(word, PunctuationLiteral) THEN "Punc"
    ELSE IF \/ word_lower \in SimpleProperNouns
            \/ (IsUpperChar(word[1]) /\ Len(word) > 2) THEN "Noun"
    ELSE IF word_lower \in SimplePronouns THEN "Pron"
    ELSE IF word_lower \in SimpleConjunctions THEN "Conj"
    ELSE IF word_lower \in SimpleAdverbs THEN "Adv"
    ELSE IF word_lower \in SimplePostpositions THEN "Postp"
    ELSE IF word_lower \in SimpleDeterminers THEN "Det"
    ELSE IF IsDigit(word_lower) \/ word_lower \in SimpleNumberWords THEN "Num"
    ELSE IF EndsWithAny(word_lower, SimpleVerbSuffixes) THEN "Verb"
    ELSE IF \/ EndsWithAny(word_lower, SimpleAdjSuffixes)
            \/ word_lower \in SimpleAdjectives THEN "Adj"
    ELSE IF word_lower \in SimpleCommonNouns THEN "Noun"
    ELSE "Noun"

\* ------------------------------------------------------------------ inputs
\* Words the sentences are built from: a punctuation mark, a capitalised
\* name, a conjunction and a locative noun.
Vocabulary ==
    { <<".">>, <<"A", "l", "i">>, <<"v", "e">>, <<"e", "v", "d", "e">> }

\* All sequences of at most n words of the vocabulary.
WordSeqs(n) == UNION { [1..k -> Vocabulary] : k \in 0..n }

RECURSIVE Join(_, _)
\* sep.join(ws)
Join(ws, sep) ==
    IF ws = <<>> THEN <<>>
    ELSE IF Len(ws) = 1 THEN ws[1]
    ELSE ws[1] \o sep \o Join(Tail(ws), sep)

\* Sentences: the words joined by one space, and the same words with a
\* leading tab, double spaces and a trailing space.  With no word these are
\* the empty string and a whitespace-only string.
Sentences ==
    { Join(ws, <<" ">>) : ws \in WordSeqs(MaxWords) }
    \cup { <<"\t">> \o Join(ws, <<" ", " ">>) \o <<" ">> : ws \in WordSeqs(MaxWords) }

\* A value passed to tag: a str with its text, or a value that is no str.
Str(s) == [type |-> "str", text |-> s]
NonText == [type |-> "int", text |-> <<>>]
TagInputs == { Str(s) : s \in Sentences } \cup {NonText}

\* isinstance(x, str)
IsStr(x) == x.type = "str"

\* ----------------------------------------------------- external collaborators
\* State of the serialized tagger file as _load_legacy_model finds it.
LegacyFileStates == {"valid", "missing", "not_brill"}

\* Content of metadata.json as far as the facade reads it.
MetaKinds == {"full", "no_id2tag", "no_eval_results", "no_training_args"}

\* State of the fine-tuned model directory as _load_fine_tuned_model finds it.
FineTunedArtifacts ==
    { [dir |-> FALSE, meta |-> "missing", weights |-> "absent"],
      [dir |-> TRUE, meta |-> "missing", weights |-> "absent"],
      [dir |-> TRUE, meta |-> "full", weights |-> "unloadable"] }
    \cup [dir : {TRUE}, meta : MetaKinds \ {"no_training_args"},
          weights : {"absent", "loadable"}]
    \cup { [dir |-> TRUE, meta |-> "no_training_args", weights |-> "absent"] }

\* Whether the pretrained transformer can be fetched and built.
TransformerStates == {"available", "unavailable"}

\* What legacy_tagger.tag([token]) returns for one token: a pair with a tag
\* string, an empty list, or a pair whose tag is no string.
LegacyResults == {"VERB", "empty", "nonstr"}

\* Surface forms and labels of the entries a token-classification pipeline returns.
Entries ==
    { [word |-> <<"a", "l", "i">>, entity_group |-> "LABEL_0"],
      [word |-> <<"a", "l", "i">>, entity_group |-> "LABEL_9"],
      [word |-> <<"e", "v">>, entity_group |-> "LABEL_0"] }
EntrySeqs(n) == UNION { [1..k -> Entries] : k \in 0..n }

\* id2tag of the metadata shipped with the fine-tuned model.
Id2Tag == [id \in {"0", "1"} |-> IF id = "0" THEN "Noun_Nom" ELSE "Verb"]

\* What the backend does when one tag call reaches it.
NoOracle == [raises |-> FALSE, tags |-> <<>>, entries |-> <<>>]
RaisingOracle == [raises |-> TRUE, tags |-> <<>>, entries |-> <<>>]

\* ------------------------------------------------------------------- state
VARIABLES
    phase,      \* position of __init__: unloaded, loading, fallback, loaded, failed
    requested,  \* the model_type argument of __init__
    self,       \* the facade's fields
    loadLog,    \* history: the loaders run by __init__ and what each found
    call,       \* the call in progress at the caller, with its outcome
    taggers,    \* web_service.taggers: the cache of facades by model_type
    requests,   \* the request each worker thread of the web service handles
    constructions  \* number of facades the web service constructed so far

vars == <<phase, requested, self, loadLog, call, taggers, requests, constructions>>

\* The variables of the web service.
webVars == <<taggers, requests, constructions>>

\* The variables of one facade and its caller.
facadeVars == <<phase, requested, self, loadLog, call>>

\* model_type values a caller passes; any string is accepted.
Selectors == {"legacy", "fine_tuned", "berturk", "rule_based"}

\* The (model_type, model_path) arguments a caller passes: every selector
\* with model_path left at None, and two selectors with a path.
ConstructorArgs ==
    { <<sel, "None">> : sel \in Selectors }
    \cup { <<"legacy", "models/pos">>, <<"berturk", "models/pos">> }

NoCall ==
    [op |-> "none", input |-> <<>>, oracle |-> <<>>, status |-> "none",
     result |-> <<>>, path |-> "none", invoked |-> FALSE, failed |-> FALSE]

\* __init__ up to the call of _load_model
NewFacade(model_type, model_path) ==
    [model_type |-> model_type,
     model_path |-> model_path,
     legacy_tagger |-> "unset",
     fine_tuned_metadata |-> "none",
     fine_tuned_pipeline |-> "unset",
     transformer_pipeline |-> "unset"]

\* model_type values the requests to the web service carry.
WebSelectors == {"legacy", "berturk"}

\* A key of the cache no facade is stored under.
NoInstance == [id |-> 0, self |-> NewFacade("none", "None")]

\* taggers = {}
EmptyCache == [k \in WebSelectors |-> NoInstance]

\* The worker threads of the threaded server.
Threads == {"t1", "t2"}

NoRequest ==
    [kind |-> "none", has_data |-> FALSE, sentence |-> <<>>,
     sentences |-> <<>>, model_type |-> "absent"]

NoResponse ==
    [status |-> 0, results |-> <<>>, total_sentences |-> 0,
     model_type |-> "none", tag_calls |-> 0]

\* A thread that handles no request.
Idle ==
    [pc |-> "idle", req |-> NoRequest, key |-> "none", hit |-> FALSE,
     built |-> <<>>, tagger |-> NoInstance, cache_before |-> EmptyCache,
     response |-> NoResponse]

\* The web service before its first request.
InitWeb ==
    /\ taggers = EmptyCache
    /\ requests = [th \in Threads |-> Idle]
    /\ constructions = 0

Init ==
    /\ phase = "unloaded"
    /\ requested = "none"
    /\ self = NewFacade("none", "None")
    /\ loadLog = <<>>
    /\ call = NoCall
    /\ InitWeb

\* ----------------------------------------------------------------- loading
\* Variant: a fallback that cannot fail, ending in a rule-based mode when
\* the file is unusable.
LoadLegacyModelRuleFallback(s, f) ==
    IF f # "valid"
    THEN [raised |-> FALSE, error |-> "none",
          self |-> [s EXCEPT !.model_type = "rule_based"]]
    ELSE [raised |-> FALSE, error |-> "none",
          self |-> [s EXCEPT !.legacy_tagger = "brill", !.model_type = "legacy"]]

\* Variant: a successful load leaves model_type as the caller passed it.
LoadLegacyModelKeepsSelector(s, f) ==
    IF f = "missing"
    THEN [raised |-> TRUE, error |-> "FileNotFoundError", self |-> s]
    ELSE IF f = "not_brill"
    THEN [raised |-> TRUE, error |-> "TypeError",
          self |-> [s EXCEPT !.legacy_tagger = "other"]]
    ELSE [raised |-> FALSE, error |-> "none",
          self |-> [s EXCEPT !.legacy_tagger = "brill"]]

\* _load_legacy_model with the file in state f
LoadLegacyModel(s, f) ==
    IF f = "missing"
    THEN [raised |-> TRUE, error |-> "FileNotFoundError", self |-> s]
    ELSE IF f = "not_brill"
    THEN [raised |-> TRUE, error |-> "TypeError",
          self |-> [s EXCEPT !.legacy_tagger = "other"]]
    ELSE [raised |-> FALSE, error |-> "none",
          self |-> [s EXCEPT !.legacy_tagger = "brill", !.model_type = "legacy"]]

\* The weight file names _load_fine_tuned_model looks for.
WeightFiles ==
    {"pytorch_model.bin", "model.safetensors", "tf_model.h5",
     "model.ckpt.index", "flax_model.msgpack"}

\* Variant: only the PyTorch weight file counts.
ModelWeightsExistPytorchOnly(listing) == "pytorch_model.bin" \in listing

\* model_weights_exist for a model directory holding the files of listing
ModelWeightsExist(listing) == \E wf \in WeightFiles : wf \in listing

\* The state of a model directory that holds the files of listing, whose
\* metadata.json (if there) is of the given kind and whose weights (if
\* there) load or not.
ArtifactOf(listing, kind, loadability) ==
    [dir |-> TRUE,
     meta |-> IF "metadata.json" \in listing THEN kind ELSE "missing",
     weights |-> IF ModelWeightsExist(listing) THEN loadability ELSE "absent"]

\* The log lines after the load read eval_results and pos_tags of the metadata.
MetaLogsCleanly(meta) == meta # "no_eval_results"

\* _load_fine_tuned_model with the model directory in state a
LoadFineTunedModel(s, a) ==
    IF ~a.dir \/ a.meta = "missing"
    THEN [raised |-> TRUE, error |-> "FileNotFoundError", self |-> s]
    ELSE LET s1 == [s EXCEPT !.fine_tuned_metadata = a.meta]
             s2 == IF a.weights = "absent"
                   THEN [s1 EXCEPT !.fine_tuned_pipeline = "none"]
                   ELSE [s1 EXCEPT !.fine_tuned_pipeline = "pipe"]
         IN  IF a.weights = "unloadable"
             THEN [raised |-> TRUE, error |-> "OSError", self |-> s1]
             ELSE IF ~MetaLogsCleanly(a.meta)
             THEN [raised |-> TRUE, error |-> "KeyError", self |-> s2]
             ELSE [raised |-> FALSE, error |-> "none", self |-> s2]

\* Variant: a mode that loads nothing and cannot fail.
LoadTransformerModelOffline(s, t) ==
    [raised |-> FALSE, error |-> "none", self |-> s]

\* _load_transformer_model with the pretrained model in state t
LoadTransformerModel(s, t) ==
    IF t = "unavailable"
    THEN [raised |-> TRUE, error |-> "OSError", self |-> s]
    ELSE [raised |-> FALSE, error |-> "none",
          self |-> [s EXCEPT !.transformer_pipeline = "pipe"]]

\* The loader the try block of _load_model selects.
RequestedLoader(s) ==
    IF s.model_type = "legacy" THEN "legacy"
    ELSE IF s.model_type = "fine_tuned" THEN "fine_tuned"
    ELSE "transformer"

\* The phase after the try block of _load_model: an exception is caught and
\* the fallback runs next.
AfterRequestedLoad(raised) == IF raised THEN "fallback" ELSE "loaded"

\* Variant: the except block swallows the exception of the fallback load.
AfterFallbackLoadSwallowed(raised) == "loaded"

\* The phase after the except block of _load_model: the exception of the
\* fallback load is not caught and leaves __init__.
AfterFallbackLoad(raised) == IF raised THEN "failed" ELSE "loaded"

LogEntry(loader, found, r) ==
    [loader |-> loader, found |-> found, error |-> r.error]

\* ModernTurkishPOSTagger(model_type=sel, model_path=path): the fields are
\* set and _load_model starts.
Construct(sel, path) ==
    /\ phase = "unloaded"
    /\ phase' = "loading"
    /\ requested' = sel
    /\ self' = NewFacade(sel, path)
    /\ UNCHANGED <<loadLog, call, webVars>>

\* The try block of _load_model.
LoadRequested ==
    /\ phase = "loading"
    /\ \/ /\ RequestedLoader(self) = "legacy"
          /\ \E f \in LegacyFileStates :
                LET r == LoadLegacyModel(self, f) IN
                /\ self' = r.self
                /\ phase' = AfterRequestedLoad(r.raised)
                /\ loadLog' = Append(loadLog, LogEntry("legacy", f, r))
       \/ /\ RequestedLoader(self) = "fine_tuned"
          /\ \E a \in FineTunedArtifacts :
                LET r == LoadFineTunedModel(self, a) IN
                /\ self' = r.self
                /\ phase' = AfterRequestedLoad(r.raised)
                /\ loadLog' = Append(loadLog, LogEntry("fine_tuned", "artifacts", r))
       \/ /\ RequestedLoader(self) = "transformer"
          /\ \E t \in TransformerStates :
                LET r == LoadTransformerModel(self, t) IN
                /\ self' = r.self
                /\ phase' = AfterRequestedLoad(r.raised)
                /\ loadLog' = Append(loadLog, LogEntry("transformer", t, r))
    /\ UNCHANGED <<requested, call, webVars>>

\* The file states the fallback load can find: the file does not change
\* while __init__ runs, so a second read finds what the first found.
FallbackFileStates ==
    IF loadLog # <<>> /\ loadLog[1].loader = "legacy"
    THEN {loadLog[1].found}
    ELSE LegacyFileStates

\* The except block of _load_model: _load_legacy_model, uncaught.
LoadFallback ==
    /\ phase = "fallback"
    /\ \E f \in FallbackFileStates :
          LET r == LoadLegacyModel(self, f) IN
          /\ self' = r.self
          /\ phase' = AfterFallbackLoad(r.raised)
          /\ loadLog' = Append(loadLog, LogEntry("legacy", f, r))
    /\ UNCHANGED <<requested, call, webVars>>

\* ----------------------------------------------------------------- tagging
\* What a tagging routine hands back: a list of (word, tag) pairs, or an
\* exception.  failed tells that an exception was raised inside the routine,
\* caught there or not.
Returned(pairs, path, failed) ==
    [raised |-> FALSE, result |-> pairs, path |-> path, failed |-> failed]
Raised == [raised |-> TRUE, result |-> <<>>, path |-> "none", failed |-> TRUE]

\* str.title() on the tags met here.
Title(tag) ==
    CASE tag = "VERB" -> "Verb"
      [] tag = "UNKNOWN" -> "Unknown"
      [] OTHER -> tag

\* The (word, tag) pair _tag_legacy keeps for one token: result[0] if the
\* tagger returned something, else (token, "UNKNOWN").
LegacyTagged(token, res) ==
    IF res = "empty" THEN <<token, "UNKNOWN">> ELSE <<token, res>>

\* Variant: the formatting loop keeps the lower-cased token of the tagger.
LegacyFormattedLowered(words, i, tagged) ==
    << tagged[1],
       IF tagged[2] = "nonstr" THEN "UNKNOWN" ELSE Title(tagged[2]) >>

\* The formatting loop of _tag_legacy for entry i: the original word and the
\* tag in title case, "UNKNOWN" for a tag that is no string.
LegacyFormatted(words, i, tagged) ==
    << IF i <= Len(words) THEN words[i] ELSE tagged[1],
       IF tagged[2] = "nonstr" THEN "UNKNOWN" ELSE Title(tagged[2]) >>

\* _tag_legacy
TagLegacy(s, sentence, o) ==
    LET words == Split(sentence)
        temp == [i \in 1..Len(words) |-> Lower(words[i])]
    IN  IF s.legacy_tagger # "brill" \/ o.raises
        THEN Raised
        ELSE LET tagged_tokens ==
                     [i \in 1..Len(temp) |-> LegacyTagged(temp[i], o.tags[i])]
             IN  Returned([i \in 1..Len(tagged_tokens) |->
                               LegacyFormatted(words, i, tagged_tokens[i])],
                          "legacy", FALSE)

\* Variant: the enhanced simulation looks words up in the simple table.
TagEnhancedSimulationSimpleTable(sentence) ==
    LET words == Split(sentence)
    IN  [i \in 1..Len(words) |-> <<words[i], SimplePosTag(words[i])>>]

\* _tag_enhanced_simulation
TagEnhancedSimulation(sentence) ==
    LET words == Split(sentence)
    IN  [i \in 1..Len(words) |-> <<words[i], EnhancedPosTag(words[i])>>]

\* Variant: the first word of a sentence is taken for a name.
TagSimpleRulesPositional(sentence) ==
    LET words == Split(sentence)
    IN  [i \in 1..Len(words) |->
            <<words[i], IF i = 1 THEN "Noun" ELSE SimplePosTag(words[i])>>]

\* _tag_simple_rules
TagSimpleRules(sentence) ==
    LET words == Split(sentence)
    IN  [i \in 1..Len(words) |-> <<words[i], SimplePosTag(words[i])>>]

\* The matching test of the alignment, case-insensitive and in either direction.
EntryMatches(word, entry) ==
    \/ IsSubstr(Lower(word), Lower(entry.word))
    \/ IsSubstr(Lower(entry.word), Lower(word))

\* Index of the first entry at or after result_idx that matches the word;
\* 0 when none does.
FirstMatch(word, results, result_idx) ==
    LET hits == { i \in (result_idx + 1)..Len(results) : EntryMatches(word, results[i]) }
    IN  IF hits = {} THEN 0
        ELSE CHOOSE i \in hits : \A j \in hits : i <= j

\* The part of entity_group after its last "_", or all of it without one.
LabelId(entity_group) ==
    CASE entity_group = "LABEL_0" -> "0"
      [] entity_group = "LABEL_9" -> "9"
      [] OTHER -> entity_group

\* The tag of a matched entry: id2tag of its label id, else the raw label.
EntryTag(entry, id2tag) ==
    IF LabelId(entry.entity_group) \in DOMAIN id2tag
    THEN id2tag[LabelId(entry.entity_group)]
    ELSE entry.entity_group

\* Variant: a match leaves the cursor where it was.
CursorAfterMatchStay(result_idx, i) == result_idx

\* Variant: a match moves the cursor on by one entry.
CursorAfterMatchNext(result_idx, i) == result_idx + 1

\* The cursor after a match at entry i (1-based): past the matched entry.
CursorAfterMatch(result_idx, i) == i

RECURSIVE AlignAdvancingOnMiss(_, _, _, _, _)
\* Variant: a word no entry matches moves the cursor on by one entry.
AlignAdvancingOnMiss(words, k, results, result_idx, id2tag) ==
    IF k > Len(words) THEN <<>>
    ELSE LET word == words[k]
             m == IF result_idx < Len(results)
                  THEN FirstMatch(word, results, result_idx)
                  ELSE 0
         IN  IF m # 0
             THEN << <<word, EntryTag(results[m], id2tag)>> >>
                  \o AlignAdvancingOnMiss(words, k + 1, results,
                                          CursorAfterMatch(result_idx, m), id2tag)
             ELSE << <<word, EnhancedPosTag(word)>> >>
                  \o AlignAdvancingOnMiss(words, k + 1, results,
                                          result_idx + 1, id2tag)

RECURSIVE Align(_, _, _, _, _)
\* The alignment loop of _tag_fine_tuned from word k on; result_idx counts
\* the entries consumed so far.
Align(words, k, results, result_idx, id2tag) ==
    IF k > Len(words) THEN <<>>
    ELSE LET word == words[k]
             m == IF result_idx < Len(results)
                  THEN FirstMatch(word, results, result_idx)
                  ELSE 0
         IN  IF m # 0
             THEN << <<word, EntryTag(results[m], id2tag)>> >>
                  \o Align(words, k + 1, results, CursorAfterMatch(result_idx, m), id2tag)
             ELSE << <<word, EnhancedPosTag(word)>> >>
                  \o Align(words, k + 1, results, result_idx, id2tag)

RECURSIVE AlignTrace(_, _, _, _)
\* The alignment loop of _tag_fine_tuned from word k on, as the values of
\* its variables at each word: result_idx when the word is reached, and
\* the index (1-based) of the entry taken as best_result, 0 for None.
AlignTrace(words, k, results, result_idx) ==
    IF k > Len(words) THEN <<>>
    ELSE LET m == IF result_idx < Len(results)
                  THEN FirstMatch(words[k], results, result_idx)
                  ELSE 0
         IN  << [word |-> words[k], cursor |-> result_idx, match |-> m] >>
             \o AlignTrace(words, k + 1, results,
                           IF m # 0 THEN CursorAfterMatch(result_idx, m)
                           ELSE result_idx)

\* Variant: no except block in _tag_fine_tuned, its exception reaches tag.
TagFineTunedNoCatch(s, sentence, o) ==
    IF s.fine_tuned_pipeline = "none"
    THEN Returned(TagEnhancedSimulation(sentence), "enhanced_simulation", FALSE)
    ELSE IF \/ s.fine_tuned_pipeline = "unset"
            \/ o.raises
            \/ s.fine_tuned_metadata \in {"none", "no_id2tag"}
    THEN Raised
    ELSE Returned(Align(Split(sentence), 1, o.entries, 0, Id2Tag),
                  "fine_tuned_pipeline", FALSE)

\* _tag_fine_tuned: every exception is caught inside and answered with the
\* enhanced rule table.
TagFineTuned(s, sentence, o) ==
    IF s.fine_tuned_pipeline = "none"
    THEN Returned(TagEnhancedSimulation(sentence), "enhanced_simulation", FALSE)
    ELSE IF \/ s.fine_tuned_pipeline = "unset"
            \/ o.raises
            \/ s.fine_tuned_metadata \in {"none", "no_id2tag"}
    THEN Returned(TagEnhancedSimulation(sentence), "enhanced_simulation", TRUE)
    ELSE Returned(Align(Split(sentence), 1, o.entries, 0, Id2Tag),
                  "fine_tuned_pipeline", FALSE)

\* Variant: the words take the label of the first pipeline entry.
TagTransformerUsingPipeline(s, sentence, o) ==
    IF s.transformer_pipeline # "pipe" \/ o.raises
    THEN Raised
    ELSE LET words == Split(sentence)
         IN  Returned([i \in 1..Len(words) |->
                          <<words[i],
                            IF o.entries = <<>> THEN SimplePosTag(words[i])
                            ELSE o.entries[1].entity_group>>],
                      "transformer", FALSE)

\* _tag_transformer: the pipeline runs, its output is not read.
TagTransformer(s, sentence, o) ==
    IF s.transformer_pipeline # "pipe" \/ o.raises
    THEN Raised
    ELSE Returned(TagSimpleRules(sentence), "transformer", FALSE)

\* The dispatch inside the try block of tag.
Dispatch(s, sentence, o) ==
    IF s.model_type = "legacy" THEN TagLegacy(s, sentence, o)
    ELSE IF s.model_type = "fine_tuned" THEN TagFineTuned(s, sentence, o)
    ELSE TagTransformer(s, sentence, o)

\* Variant: the except block answers with an empty list.
FallbackEmpty(sentence) ==
    [status |-> "ok", result |-> <<>>,
     path |-> "simple_rules", invoked |-> TRUE, failed |-> TRUE]

\* The except block of tag: the simple rule table.
Fallback(sentence) ==
    [status |-> "ok", result |-> TagSimpleRules(sentence),
     path |-> "simple_rules", invoked |-> TRUE, failed |-> TRUE]

\* Variant: no except block, the exception of the backend leaves tag.
GuardedNoCatch(r, sentence) ==
    IF r.raised
    THEN [status |-> "Exception", result |-> <<>>, path |-> "none",
          invoked |-> TRUE, failed |-> TRUE]
    ELSE [status |-> "ok", result |-> r.result, path |-> r.path,
          invoked |-> TRUE, failed |-> r.failed]

\* The try/except of tag around the dispatch.
Guarded(r, sentence) ==
    IF r.raised
    THEN Fallback(sentence)
    ELSE [status |-> "ok", result |-> r.result, path |-> r.path,
          invoked |-> TRUE, failed |-> r.failed]

\* Variant: no type check.
RejectsNothing(x) == FALSE

\* The type check of tag.
RejectsInput(x) == ~IsStr(x)

\* Variant: only the empty string counts as blank.
IsBlankEmptyOnly(sentence) == sentence = <<>>

\* The blank check of tag.
IsBlank(sentence) == Strip(sentence) = <<>>

\* tag(x) on facade s, with the backend behaving as o: what the caller gets.
TagCall(s, x, o) ==
    IF RejectsInput(x)
    THEN [status |-> "TypeError", result |-> <<>>, path |-> "none",
          invoked |-> FALSE, failed |-> FALSE]
    ELSE IF IsBlank(x.text)
    THEN [status |-> "ok", result |-> <<>>, path |-> "blank",
          invoked |-> FALSE, failed |-> FALSE]
    ELSE Guarded(Dispatch(s, x.text, o), x.text)

\* Whether tag(x) on facade s calls the external backend at all.
ReachesBackend(s, x) ==
    /\ IsStr(x)
    /\ ~IsBlank(x.text)
    /\ ~(s.model_type = "fine_tuned" /\ s.fine_tuned_pipeline # "pipe")

\* The behaviours of the backend one call tag(x) on facade s can meet.
Oracles(s, x) ==
    IF ~ReachesBackend(s, x) THEN {NoOracle}
    ELSE IF s.model_type = "legacy"
    THEN {RaisingOracle}
         \cup { [raises |-> FALSE, tags |-> t, entries |-> <<>>] :
                  t \in [1..Len(Split(x.text)) -> LegacyResults] }
    ELSE IF s.model_type = "fine_tuned"
    THEN {RaisingOracle}
         \cup { [raises |-> FALSE, tags |-> <<>>, entries |-> e] :
                  e \in EntrySeqs(MaxEntries) }
    ELSE {RaisingOracle}
         \cup { [raises |-> FALSE, tags |-> <<>>, entries |-> e] :
                  e \in EntrySeqs(1) }

\* Variant: a call whose backend failed leaves the facade in legacy mode.
SelfAfterTagDowngraded(s, r) ==
    IF r.failed THEN [s EXCEPT !.model_type = "legacy"] ELSE s

\* The facade after tag returned r: tag and the routines it calls assign
\* no field of the facade.
SelfAfterTag(s, r) == s

\* tagger.tag(x)
Tag(x) ==
    /\ phase = "loaded"
    /\ call.op = "none"
    /\ \E o \in Oracles(self, x) :
          LET r == TagCall(self, x, o) IN
          /\ call' = [op |-> "tag", input |-> x, oracle |-> o, status |-> r.status,
                   result |-> r.result, path |-> r.path, invoked |-> r.invoked,
                   failed |-> r.failed]
          /\ self' = SelfAfterTag(self, r)
    /\ UNCHANGED <<phase, requested, loadLog, webVars>>

\* ------------------------------------------------------------------- batch
\* Elements of the lists passed to batch_tag: a one-word sentence, a padded
\* two-word sentence, a whitespace-only sentence and a value that is no str.
BatchPool ==
    { Str(<<"A", "l", "i">>),
      Str(<<"\t", "v", "e", " ", " ", "A", "l", "i", " ">>),
      Str(<<"\t", " ">>),
      NonText }

BatchInputs == UNION { [1..k -> BatchPool] : k \in 0..MaxBatch }

\* A backend that answers every token: the tag "VERB" from the serialized
\* tagger, one entry from a pipeline.
PlainOracle(x) ==
    [raises |-> FALSE,
     tags |-> [i \in 1..Len(Split(x.text)) |-> "VERB"],
     entries |-> << [word |-> <<"a", "l", "i">>, entity_group |-> "LABEL_0"] >>]

\* The behaviours of the backend met by the calls of one batch_tag.
BatchOracles(s, x) ==
    IF ~ReachesBackend(s, x) THEN {NoOracle} ELSE {RaisingOracle, PlainOracle(x)}

BatchOracleSeqs(s, inputs) ==
    { os \in [1..Len(inputs) -> UNION { BatchOracles(s, x) : x \in BatchPool }] :
        \A i \in 1..Len(inputs) : os[i] \in BatchOracles(s, inputs[i]) }

\* Variant: empty results are left out of the list.
BatchCollectNonEmpty(acc, r) == IF r.result = <<>> THEN acc ELSE Append(acc, r)

\* The list comprehension of batch_tag gains the value of one tag call.
BatchCollect(acc, r) == Append(acc, r)

RECURSIVE BatchLoopSkipping(_, _, _, _, _)
\* Variant: an element whose tag call raises is skipped.
BatchLoopSkipping(s, inputs, oracles, i, acc) ==
    IF i > Len(inputs)
    THEN [status |-> "ok", returned |-> acc]
    ELSE LET r == TagCall(s, inputs[i], oracles[i])
         IN  IF r.status # "ok"
             THEN BatchLoopSkipping(s, inputs, oracles, i + 1, acc)
             ELSE BatchLoopSkipping(s, inputs, oracles, i + 1, BatchCollect(acc, r))

RECURSIVE BatchLoop(_, _, _, _, _)
\* The list comprehension of batch_tag from element i on: an exception of
\* tag leaves it, and no list is built.
BatchLoop(s, inputs, oracles, i, acc) ==
    IF i > Len(inputs)
    THEN [status |-> "ok", returned |-> acc]
    ELSE LET r == TagCall(s, inputs[i], oracles[i])
         IN  IF r.status # "ok"
             THEN [status |-> r.status, returned |-> <<>>]
             ELSE BatchLoop(s, inputs, oracles, i + 1, BatchCollect(acc, r))

\* batch_tag(inputs) on facade s
BatchTagCall(s, inputs, oracles) == BatchLoop(s, inputs, oracles, 1, <<>>)

\* tagger.batch_tag(inputs)
BatchTag(inputs) ==
    /\ phase = "loaded"
    /\ call.op = "none"
    /\ \E os \in BatchOracleSeqs(self, inputs) :
          LET b == BatchTagCall(self, inputs, os)
              n == Len(b.returned)
          IN  call' = [op |-> "batch_tag", input |-> inputs, oracle |-> os,
                       status |-> b.status,
                       result |-> [i \in 1..n |-> b.returned[i].result],
                       path |-> [i \in 1..n |-> b.returned[i].path],
                       invoked |-> \E i \in 1..n : b.returned[i].invoked,
                       failed |-> \E i \in 1..n : b.returned[i].failed]
    /\ UNCHANGED <<phase, requested, self, loadLog, webVars>>

\* ------------------------------------------------------------- model info
\* The pos_tags list of a metadata file.
MetaPosTags == <<"Noun_Nom", "Verb">>

\* Whether the metadata holds every key get_model_info reads:
\* eval_results (eval_accuracy, eval_f1, eval_precision, eval_recall),
\* training_args.epochs and pos_tags.
MetaHasInfoKeys(meta) == meta \in {"full", "no_id2tag"}

\* get_model_info() on facade s; the values read from the metadata are
\* named by their keys.
ModelInfo(s) ==
    LET info == [model_type |-> s.model_type,
                 model_path |-> IF s.model_path = "None" THEN "default"
                                ELSE s.model_path,
                 supports_batch |-> TRUE,
                 language |-> "Turkish"]
    IN  IF s.model_type = "fine_tuned" /\ s.fine_tuned_metadata # "none"
        THEN IF MetaHasInfoKeys(s.fine_tuned_metadata)
             THEN [status |-> "ok",
                   info |-> info @@ [is_fine_tuned |-> TRUE,
                                     accuracy |-> "eval_accuracy",
                                     f1_score |-> "eval_f1",
                                     precision |-> "eval_precision",
                                     recall |-> "eval_recall",
                                     training_epochs |-> "epochs",
                                     pos_tags_count |-> Len(MetaPosTags),
                                     pos_tags |-> MetaPosTags]]
             ELSE [status |-> "KeyError", info |-> <<>>]
        ELSE [status |-> "ok", info |-> info @@ [is_fine_tuned |-> FALSE]]

\* tagger.get_model_info()
GetModelInfo ==
    /\ phase = "loaded"
    /\ call.op = "none"
    /\ LET r == ModelInfo(self) IN
       call' = [op |-> "get_model_info", input |-> <<>>, oracle |-> NoOracle,
                status |-> r.status, result |-> r.info, path |-> "none",
                invoked |-> FALSE, failed |-> FALSE]
    /\ UNCHANGED <<phase, requested, self, loadLog, webVars>>

\* The caller takes the value or the exception of its call.
Return ==
    /\ call.op # "none"
    /\ call' = NoCall
    /\ UNCHANGED <<phase, requested, self, loadLog, webVars>>

Next ==
    \/ \E args \in ConstructorArgs : Construct(args[1], args[2])
    \/ LoadRequested
    \/ LoadFallback
    \/ \E x \in TagInputs : Tag(x)
    \/ \E inputs \in BatchInputs : BatchTag(inputs)
    \/ GetModelInfo
    \/ Return

Spec == Init /\ [][Next]_vars

\* ------------------------------------------------------------------ claims
\* The words of a list of (word, tag) pairs.
Words(pairs) == [k \in DOMAIN pairs |-> pairs[k][1]]

\* A text that is empty or holds whitespace only.
OnlyWhitespace(text) == \A k \in DOMAIN text : text[k] \in Whitespace

\* The rule table a backend falls back to: the enhanced one inside the
\* fine-tuned routine, the simple one in tag.
FallbackTag(word) ==
    IF self.model_type = "fine_tuned" THEN EnhancedPosTag(word) ELSE SimplePosTag(word)

\* C1: tag on a text never raises, whichever backend is loaded and whether or
\* not the backend fails: the caller gets a list of (word, tag) pairs.
C1_TagNeverRaisesOnText ==
    (call.op = "tag" /\ IsStr(call.input)) =>
        /\ call.status = "ok"
        /\ \A k \in DOMAIN call.result : Len(call.result[k]) = 2

\* The serialized tagger raised on a two-word sentence and tag returned two pairs.
C1_Witness ==
    /\ call.op = "tag"
    /\ self.model_type = "legacy"
    /\ call.oracle.raises
    /\ call.status = "ok"
    /\ Len(call.result) = 2

\* C2 as stated: construction never ends in a failure.
C2_ConstructionTotal == phase # "failed"

\* C2 as amended: construction ends loaded with the requested backend when
\* it loads, loaded with the serialized tagger when the requested backend
\* fails and the tagger file is valid, and in failure exactly when the
\* requested backend fails and the tagger file is missing or invalid.
C2_ConstructionOutcome ==
    /\ phase = "loaded" =>
          /\ loadLog # <<>>
          /\ loadLog[Len(loadLog)].error = "none"
          /\ Len(loadLog) = 1 => self.model_type = requested
          /\ Len(loadLog) = 2 =>
                /\ loadLog[1].error # "none"
                /\ loadLog[2].loader = "legacy"
                /\ self.model_type = "legacy"
    /\ phase = "failed" =>
          /\ Len(loadLog) = 2
          /\ loadLog[1].error # "none"
          /\ loadLog[2].loader = "legacy"
          /\ loadLog[2].found # "valid"
          /\ loadLog[2].error # "none"
    /\ (Len(loadLog) = 2 /\ loadLog[2].found = "valid") => phase = "loaded"
    /\ (Len(loadLog) = 2 /\ loadLog[2].found # "valid") => phase = "failed"
    /\ (Len(loadLog) = 1 /\ loadLog[1].error # "none") => phase = "fallback"

\* The fine-tuned backend failed to load, the tagger file is missing, and
\* the constructor raised.
C2_Witness ==
    /\ phase = "failed"
    /\ requested = "fine_tuned"
    /\ loadLog[2].found = "missing"

\* C3 as stated: with the legacy selector and the tagger file unavailable,
\* construction ends with a facade whose backend identifier is rule-based.
C3_LegacyUnavailableDegrades ==
    (requested = "legacy" /\ Len(loadLog) = 2 /\ loadLog[1].found # "valid") =>
        (phase = "loaded" /\ self.model_type = "rule_based")

\* C3 as amended: with the legacy selector and the tagger file unavailable,
\* the fallback runs the same loader, it fails again and the constructor
\* raises; the backend identifier stays "legacy".
C3_LegacyUnavailableRaises ==
    (requested = "legacy" /\ loadLog # <<>> /\ loadLog[1].found # "valid") =>
        /\ phase \in {"fallback", "failed"}
        /\ self.model_type = "legacy"
        /\ Len(loadLog) = 2 =>
              /\ phase = "failed"
              /\ loadLog[2].loader = "legacy"
              /\ loadLog[2].error = loadLog[1].error

\* The legacy selector, the file missing, the constructor raised.
C3_Witness ==
    /\ requested = "legacy"
    /\ phase = "failed"
    /\ loadLog[1].found = "missing"

\* C4: for a non-blank text the words of tag's result are the text's
\* whitespace-separated words: as many, in order, in their original casing.
C4_WordsPreserved ==
    (call.op = "tag" /\ IsStr(call.input) /\ ~OnlyWhitespace(call.input.text)) =>
        /\ call.status = "ok"
        /\ Words(call.result) = Split(call.input.text)

\* The serialized tagger tagged a padded two-word sentence whose second word
\* is capitalised.
C4_Witness ==
    /\ call.op = "tag"
    /\ call.path = "legacy"
    /\ Head(call.input.text) = "\t"
    /\ Len(call.result) = 2
    /\ call.result[2][1] = <<"A", "l", "i">>

\* C5: tag on an empty or whitespace-only text returns the empty list
\* without raising and without reaching any tagging routine.
C5_BlankGivesEmpty ==
    (call.op = "tag" /\ IsStr(call.input) /\ OnlyWhitespace(call.input.text)) =>
        /\ call.status = "ok"
        /\ call.result = <<>>
        /\ ~call.invoked

\* A whitespace-only text was passed to a facade with the fine-tuned pipeline loaded.
C5_Witness ==
    /\ call.op = "tag"
    /\ call.input = Str(<<"\t", " ">>)
    /\ self.model_type = "fine_tuned"
    /\ self.fine_tuned_pipeline = "pipe"
    /\ call.status = "ok"

\* C6: tag on a value that is no text raises TypeError before any dispatch,
\* and the fallback does not swallow it.
C6_NonTextRaisesTypeError ==
    (call.op = "tag" /\ ~IsStr(call.input)) =>
        /\ call.status = "TypeError"
        /\ ~call.invoked
        /\ call.path = "none"
        /\ call.result = <<>>

\* A value that is no text was passed to a facade in transformer mode.
C6_Witness ==
    /\ call.op = "tag"
    /\ call.input = NonText
    /\ self.model_type = "berturk"
    /\ call.status = "TypeError"

\* C7: when the backend fails inside tag on a non-blank text, tag returns
\* one (word, rule-table tag) pair per whitespace-separated word: the simple
\* table's tag after the serialized tagger or the transformer pipeline
\* failed, the enhanced table's tag after the fine-tuned pipeline failed.
C7_FailureGivesRuleTags ==
    (call.op = "tag" /\ (call.oracle.raises \/ call.failed)) =>
        LET words == Split(call.input.text) IN
        /\ call.status = "ok"
        /\ words # <<>>
        /\ Len(call.result) = Len(words)
        /\ \A k \in 1..Len(words) :
              call.result[k] = <<words[k], FallbackTag(words[k])>>

\* The transformer pipeline raised on a two-word sentence.
C7_Witness ==
    /\ call.op = "tag"
    /\ self.model_type = "berturk"
    /\ self.transformer_pipeline = "pipe"
    /\ call.oracle.raises
    /\ Len(call.result) = 2

\* Every element of a list is a text.
AllText(inputs) == \A i \in DOMAIN inputs : IsStr(inputs[i])

\* C8: on a list of texts batch_tag returns a list of the same length whose
\* i-th element is what tag returns for the i-th text alone.
C8_BatchIsPointwiseTag ==
    (call.op = "batch_tag" /\ AllText(call.input)) =>
        /\ call.status = "ok"
        /\ Len(call.result) = Len(call.input)
        /\ \A i \in 1..Len(call.input) :
              call.result[i] = TagCall(self, call.input[i], call.oracle[i]).result

\* A batch of a one-word sentence followed by a whitespace-only one.
C8_Witness ==
    /\ call.op = "batch_tag"
    /\ Len(call.input) = 2
    /\ call.input[2] = Str(<<"\t", " ">>)
    /\ Len(call.result) = 2
    /\ Len(call.result[1]) = 1
    /\ call.result[2] = <<>>

\* C9 as stated: whatever the list, an error on one element does not keep
\* batch_tag from returning the result of every other element.
C9_BatchNeverTerminatesEarly ==
    call.op = "batch_tag" =>
        \A i \in 1..Len(call.input) :
            IsStr(call.input[i]) =>
                \E j \in DOMAIN call.result :
                    call.result[j] = TagCall(self, call.input[i], call.oracle[i]).result

\* C9 as amended: a backend failure on one element changes no other
\* element's result, and a non-text element makes batch_tag raise TypeError
\* with no result for any element.
C9_BatchErrors ==
    call.op = "batch_tag" =>
        IF AllText(call.input)
        THEN /\ call.status = "ok"
             /\ \A i \in 1..Len(call.input) :
                   call.oracle[i].raises =>
                       \A j \in (1..Len(call.input)) \ {i} :
                           /\ j \in DOMAIN call.result
                           /\ call.result[j] =
                                  TagCall(self, call.input[j], call.oracle[j]).result
        ELSE /\ call.status = "TypeError"
             /\ call.result = <<>>

\* A text followed by a non-text: the first was tagged, batch_tag raised.
C9_Witness ==
    /\ call.op = "batch_tag"
    /\ Len(call.input) = 2
    /\ IsStr(call.input[1])
    /\ ~OnlyWhitespace(call.input[1].text)
    /\ ~IsStr(call.input[2])
    /\ call.status = "TypeError"

\* The rule table behind a result, by the routine that produced it.
RuleTable(path) ==
    IF path \in {"simple_rules", "transformer"} THEN "simple"
    ELSE IF path = "enhanced_simulation" THEN "enhanced"
    ELSE "none"

\* The (table, word, tag) triples of a result a rule table produced.
RuleTriples(pairs, path) ==
    IF RuleTable(path) = "none" THEN {}
    ELSE { [table |-> RuleTable(path), word |-> pairs[k][1], tag |-> pairs[k][2]] :
             k \in DOMAIN pairs }

\* The triples of the call at hand: of one tag call, or of all the tag
\* calls one batch_tag made on the facade.
SeenRuleTriples ==
    IF call.op = "tag" THEN RuleTriples(call.result, call.path)
    ELSE IF call.op = "batch_tag"
    THEN UNION { RuleTriples(call.result[i], call.path[i]) : i \in DOMAIN call.result }
    ELSE {}

\* C10: a rule table gives the same word the same tag, at every position of
\* a sentence and in every call of a sequence of tag calls on one facade.
C10_RuleTagDependsOnWordOnly ==
    \A p, q \in SeenRuleTriples :
        (p.table = q.table /\ p.word = q.word) => p.tag = q.tag

\* Two calls of one batch tagged the same word by the simple table, alone in
\* the first sentence and second in the other.
C10_Witness ==
    /\ call.op = "batch_tag"
    /\ Len(call.result) = 2
    /\ call.path[1] = "simple_rules"
    /\ call.path[2] = "simple_rules"
    /\ Len(call.result[1]) = 1
    /\ Len(call.result[2]) = 2
    /\ call.result[1][1] = call.result[2][2]

\* ------------------------------------------------- the rule tables alone
\* Longest sentence handed to a rule-table routine directly, in words.
MaxRuleWords == 2

\* Words in several casings, a punctuation mark and a one-letter pronoun.
RuleWords ==
    { <<".">>,
      <<"v", "e">>, <<"V", "e">>, <<"V", "E">>,
      <<"g", "e", "l", "d", "i">>, <<"G", "e", "l", "d", "i">>,
      <<"G", "E", "L", "D", "I">>,
      <<"e", "v", "d", "e">>, <<"E", "v", "d", "e">>,
      <<"a", "l", "i">>, <<"A", "l", "i">>,
      <<"o">>, <<"O">> }

RuleSentences ==
    { Join(ws, <<" ">>) : ws \in UNION { [1..k -> RuleWords] : k \in 0..MaxRuleWords } }

\* A facade with the transformer pipeline loaded; the rule-table routines
\* read none of its fields.
InitRules ==
    LET r == LoadTransformerModel(NewFacade("berturk", "None"), "available") IN
    /\ phase = "loaded"
    /\ requested = "berturk"
    /\ self = r.self
    /\ loadLog = <<LogEntry("transformer", "available", r)>>
    /\ call = NoCall
    /\ InitWeb

\* tagger._tag_simple_rules(sentence)
SimpleRules(sentence) ==
    /\ call.op = "none"
    /\ call' = [op |-> "_tag_simple_rules", input |-> Str(sentence),
                oracle |-> NoOracle, status |-> "ok",
                result |-> TagSimpleRules(sentence), path |-> "simple_rules",
                invoked |-> FALSE, failed |-> FALSE]
    /\ UNCHANGED <<phase, requested, self, loadLog, webVars>>

\* tagger._tag_enhanced_simulation(sentence)
EnhancedSimulation(sentence) ==
    /\ call.op = "none"
    /\ call' = [op |-> "_tag_enhanced_simulation", input |-> Str(sentence),
                oracle |-> NoOracle, status |-> "ok",
                result |-> TagEnhancedSimulation(sentence),
                path |-> "enhanced_simulation",
                invoked |-> FALSE, failed |-> FALSE]
    /\ UNCHANGED <<phase, requested, self, loadLog, webVars>>

NextRules ==
    \/ \E sentence \in RuleSentences : SimpleRules(sentence)
    \/ \E sentence \in RuleSentences : EnhancedSimulation(sentence)
    \/ Return

SpecRules == InitRules /\ [][NextRules]_vars

\* The (table, word, tag) triples of a direct call of a rule-table routine.
RuleCallTriples ==
    IF call.op \in {"_tag_simple_rules", "_tag_enhanced_simulation"}
    THEN RuleTriples(call.result, call.path)
    ELSE {}

\* The capitalisation test of the simple table: an upper-case first
\* character and more than two characters.
IsCapitalisedLong(word) == IsUpperChar(word[1]) /\ Len(word) > 2

\* C11 as stated: two words that differ only in letter case get the same
\* tag from a rule table.
C11_CaseInsensitive ==
    \A p, q \in RuleCallTriples :
        (p.table = q.table /\ Lower(p.word) = Lower(q.word)) => p.tag = q.tag

\* C11 as amended: the enhanced table gives two words that differ only in
\* letter case the same tag; the simple table does so when both or neither
\* of them is capitalised (upper-case first character, more than two
\* characters), and gives the capitalised one of a pair Noun.
C11_CaseInsensitiveButCapitalised ==
    \A p, q \in RuleCallTriples :
        (p.table = q.table /\ Lower(p.word) = Lower(q.word)) =>
            /\ p.table = "enhanced" => p.tag = q.tag
            /\ (p.table = "simple"
                /\ IsCapitalisedLong(p.word) = IsCapitalisedLong(q.word)) =>
                   p.tag = q.tag
            /\ (p.table = "simple"
                /\ IsCapitalisedLong(p.word) /\ ~IsCapitalisedLong(q.word)) =>
                   p.tag = "Noun"

\* The simple table tagged "Geldi" Noun and "geldi" Verb in one sentence.
C11_Witness ==
    /\ call.op = "_tag_simple_rules"
    /\ call.result = << << <<"G", "e", "l", "d", "i">>, "Noun" >>,
                        << <<"g", "e", "l", "d", "i">>, "Verb" >> >>

\* --------------------------------------------------- selector and info
\* The resources of the backend model_type names are loaded.
BackendLoaded(s) ==
    IF s.model_type = "legacy" THEN s.legacy_tagger = "brill"
    ELSE IF s.model_type = "fine_tuned"
    THEN s.fine_tuned_metadata # "none" /\ s.fine_tuned_pipeline \in {"none", "pipe"}
    ELSE s.transformer_pipeline = "pipe"

\* The backend a result path of tag belongs to.
PathBackend(path) ==
    IF path = "legacy" THEN "legacy"
    ELSE IF path \in {"fine_tuned_pipeline", "enhanced_simulation"} THEN "fine_tuned"
    ELSE "transformer"

\* C12: after a successful construction the backend identifier is the one
\* tag dispatches on and the one whose resources are loaded; it equals the
\* requested selector exactly when the requested backend loaded, and is the
\* fallback backend's identifier otherwise; get_model_info reports it.
C12_InfoNamesLoadedBackend ==
    phase = "loaded" =>
        /\ BackendLoaded(self)
        /\ (self.model_type = requested) <=> (loadLog[1].error = "none")
        /\ loadLog[1].error # "none" => self.model_type = "legacy"
        /\ (call.op = "get_model_info" /\ call.status = "ok") =>
              call.result.model_type = self.model_type
        /\ (call.op = "tag" /\ call.status = "ok" /\ ~call.failed
              /\ call.path # "blank") =>
              PathBackend(call.path) = RequestedLoader(self)

\* A fine-tuned request fell back and get_model_info reports "legacy".
C12_Witness ==
    /\ phase = "loaded"
    /\ requested = "fine_tuned"
    /\ Len(loadLog) = 2
    /\ call.op = "get_model_info"
    /\ call.status = "ok"
    /\ call.result.model_type = "legacy"

\* C13: once the facade is constructed, no call of tag, batch_tag or
\* get_model_info changes the selector or the loaded backend, no load is
\* attempted again, and a backend failure answered by the rule table
\* leaves the selector as it was.
C13_CallsLeaveFacade ==
    [][phase = "loaded" =>
          (self' = self /\ requested' = requested
           /\ loadLog' = loadLog /\ phase' = phase)]_vars

\* A tag call on a transformer facade failed, was answered by the rule
\* table, and the selector is still the transformer's.
C13_Witness ==
    /\ phase = "loaded"
    /\ call.op = "tag"
    /\ call.failed
    /\ call.path = "simple_rules"
    /\ self.model_type = "berturk"
    /\ self.transformer_pipeline = "pipe"

\* The keys get_model_info adds for a fine-tuned backend.
FineTunedInfoKeys ==
    {"accuracy", "f1_score", "precision", "recall", "training_epochs",
     "pos_tags_count", "pos_tags"}

\* C14: get_model_info always returns the backend identifier, the
\* configured path or "default", supports_batch true and language
\* "Turkish"; the fine-tuned keys are present, with is_fine_tuned true,
\* exactly when the loaded backend is the fine-tuned one with metadata,
\* and is_fine_tuned is false otherwise.
C14_InfoAlwaysReturned ==
    call.op = "get_model_info" =>
        /\ call.status = "ok"
        /\ call.result.model_type = self.model_type
        /\ call.result.model_path =
              (IF self.model_path = "None" THEN "default" ELSE self.model_path)
        /\ call.result.supports_batch = TRUE
        /\ call.result.language = "Turkish"
        /\ IF self.model_type = "fine_tuned" /\ self.fine_tuned_metadata # "none"
           THEN /\ call.result.is_fine_tuned = TRUE
                /\ FineTunedInfoKeys \subseteq DOMAIN call.result
           ELSE /\ call.result.is_fine_tuned = FALSE
                /\ FineTunedInfoKeys \cap DOMAIN call.result = {}

\* ------------------------------------------------- rule-based as a mode
\* C15 as stated: constructing with the rule-based selector needs no
\* external artifact and yields a facade in rule-based mode whose tag
\* output is the rule table's tag for every word.
C15_RuleBasedNeedsNoArtifact ==
    requested = "rule_based" =>
        /\ phase \notin {"fallback", "failed"}
        /\ phase = "loaded" =>
              /\ self.model_type = "rule_based"
              /\ self.transformer_pipeline = "unset"
              /\ self.legacy_tagger = "unset"
              /\ (call.op = "tag" /\ call.status = "ok") =>
                    call.result = TagSimpleRules(call.input.text)

\* C15 as amended: the rule-based selector takes the transformer loader.
\* With the pretrained model available the facade keeps the selector,
\* holds the pipeline, and tag's output is the simple rule table's tag for
\* every word; with it unavailable the legacy loader runs, and the facade
\* is a legacy one or construction fails.
C15_RuleBasedIsTransformerMode ==
    (requested = "rule_based" /\ phase # "loading") =>
        /\ loadLog[1].loader = "transformer"
        /\ IF loadLog[1].error = "none"
           THEN /\ phase = "loaded"
                /\ self.model_type = "rule_based"
                /\ self.transformer_pipeline = "pipe"
                /\ (call.op = "tag" /\ call.status = "ok") =>
                      call.result = TagSimpleRules(call.input.text)
           ELSE /\ loadLog[1].found = "unavailable"
                /\ phase = "loaded" =>
                      (self.model_type = "legacy" /\ self.legacy_tagger = "brill")
                /\ phase = "failed" => loadLog[2].error # "none"

\* A facade built with the rule-based selector holds the transformer
\* pipeline and tagged a sentence with the simple table.
C15_Witness ==
    /\ requested = "rule_based"
    /\ phase = "loaded"
    /\ self.model_type = "rule_based"
    /\ self.transformer_pipeline = "pipe"
    /\ call.op = "tag"
    /\ call.status = "ok"
    /\ call.result = << << <<"A", "l", "i">>, "Noun" >>, << <<".">>, "Punc" >> >>

\* C16: whenever a sentence is tagged by a rule table, as the simple
\* fallback of tag or as the enhanced simulation, the token "." gets the
\* punctuation tag, whichever backend is loaded.
C16_PeriodIsPunctuation ==
    \A p \in SeenRuleTriples : p.word = <<".">> => p.tag = "Punc"

\* The pipeline of a fine-tuned facade failed and the enhanced table
\* tagged "." as punctuation.
C16_Witness ==
    /\ call.op = "tag"
    /\ self.model_type = "fine_tuned"
    /\ call.failed
    /\ call.path = "enhanced_simulation"
    /\ \E k \in DOMAIN call.result : call.result[k] = << <<".">>, "Punc" >>

MaxBatchSentences == 100
\* Most facades the web service constructs in one behaviour.
MaxConstructions == 3
\* Longest list of mixed entries drawn as the sentences of a batch request.
MaxWebBatch == 2

\* [x] * n
Repeat(x, n) == [i \in 1..n |-> x]

\* The model_type of a request body: a selector, or the key left out.
WebModelTypes == WebSelectors \cup {"absent"}

NoData ==
    [kind |-> "tag", has_data |-> FALSE, sentence |-> <<>>,
     sentences |-> <<>>, model_type |-> "absent"]

TagRequest(sentence, model_type) ==
    [kind |-> "tag", has_data |-> TRUE, sentence |-> sentence,
     sentences |-> <<>>, model_type |-> model_type]

BatchRequest(sentences, model_type) ==
    [kind |-> "batch", has_data |-> TRUE, sentence |-> <<>>,
     sentences |-> sentences, model_type |-> model_type]

\* The sentence of a tag request: empty, whitespace, and two words with a
\* trailing space.
WebSentences ==
    { <<>>, <<"\t", " ">>, <<"A", "l", "i", " ", ".", " ">> }

\* Bodies of POST /api/tag.
WebTagRequests ==
    {NoData}
    \cup { TagRequest(s, k) : s \in WebSentences, k \in WebModelTypes }

\* Entries of the sentences list: a padded sentence, a whitespace-only
\* string and a value that is no string.
WebBatchPool ==
    { Str(<<" ", "A", "l", "i", " ">>), Str(<<"\t", " ">>), NonText }

\* The sentences lists: short lists of mixed entries, a list of exactly the
\* most sentences allowed and a list of one more.
WebSentenceLists ==
    UNION { [1..k -> WebBatchPool] : k \in 0..MaxWebBatch }
    \cup { Repeat(Str(<<"A", "l", "i">>), MaxBatchSentences),
           Repeat(Str(<<"A", "l", "i">>), MaxBatchSentences + 1) }

\* Bodies of POST /api/batch.
WebBatchRequests ==
    {[NoData EXCEPT !.kind = "batch"]}
    \cup { BatchRequest(l, k) : l \in WebSentenceLists, k \in WebModelTypes }

\* Bodies of the requests two clients send at the same time.
RaceRequests ==
    { TagRequest(<<"A", "l", "i">>, k) : k \in WebSelectors }

\* data.get('model_type', 'legacy')
RequestModelType(req) ==
    IF req.model_type = "absent" THEN "legacy" ELSE req.model_type

\* What a construction finds on disk and in the model hub.
WebEnvs ==
    [legacy : LegacyFileStates,
     fine_tuned : {[dir |-> FALSE, meta |-> "missing", weights |-> "absent"]},
     transformer : TransformerStates]

\* ModernTurkishPOSTagger(model_type=sel) as one call: __init__ with
\* _load_model, in the environment env.
ConstructFacade(sel, env) ==
    LET s0 == NewFacade(sel, "None")
        loader == RequestedLoader(s0)
        r1 == IF loader = "legacy" THEN LoadLegacyModel(s0, env.legacy)
              ELSE IF loader = "fine_tuned"
              THEN LoadFineTunedModel(s0, env.fine_tuned)
              ELSE LoadTransformerModel(s0, env.transformer)
        r2 == LoadLegacyModel(r1.self, env.legacy)
    IN  IF AfterRequestedLoad(r1.raised) = "loaded"
        THEN [raised |-> FALSE, self |-> r1.self]
        ELSE IF AfterFallbackLoad(r2.raised) = "loaded"
        THEN [raised |-> FALSE, self |-> r2.self]
        ELSE [raised |-> TRUE, self |-> r2.self]

\* The handler returns a response with this status and no results.
Responded(r, status) ==
    [r EXCEPT !.pc = "done", !.response = [NoResponse EXCEPT !.status = status]]

\* tag_sentence up to the call of get_tagger
TagSentenceEntry(r) ==
    IF ~r.req.has_data THEN Responded(r, 400)
    ELSE IF Strip(r.req.sentence) = <<>> THEN Responded(r, 400)
    ELSE [r EXCEPT !.pc = "lookup", !.key = RequestModelType(r.req)]

\* Variant: a list of exactly the most sentences allowed is refused too.
ExceedsLimitInclusive(sentences) == Len(sentences) >= MaxBatchSentences

\* len(sentences) > 100
ExceedsLimit(sentences) == Len(sentences) > MaxBatchSentences

\* tag_batch up to the call of get_tagger
TagBatchEntry(r) ==
    IF ~r.req.has_data THEN Responded(r, 400)
    ELSE IF r.req.sentences = <<>> THEN Responded(r, 400)
    ELSE IF ExceedsLimit(r.req.sentences) THEN Responded(r, 400)
    ELSE [r EXCEPT !.pc = "lookup", !.key = RequestModelType(r.req)]

\* A request arrives at thread th: the handler runs up to get_tagger.
Receive(th, req) ==
    /\ requests[th].pc = "idle"
    /\ LET r == [Idle EXCEPT !.req = req, !.cache_before = taggers] IN
       requests' = [requests EXCEPT ![th] =
                       IF req.kind = "tag" THEN TagSentenceEntry(r)
                       ELSE TagBatchEntry(r)]
    /\ UNCHANGED <<taggers, constructions, facadeVars>>

\* Variant: the cache is never found to hold a key.
InCacheNever(k, cache) == FALSE

\* model_type in taggers
InCache(k, cache) == cache[k].id # 0

\* get_tagger: `if model_type not in taggers` finds the key.
GetTaggerHit(th) ==
    /\ requests[th].pc = "lookup"
    /\ InCache(requests[th].key, taggers)
    /\ requests' = [requests EXCEPT ![th].pc = "return", ![th].hit = TRUE]
    /\ UNCHANGED <<taggers, constructions, facadeVars>>

\* Variant: a thread goes on to construct only while no other thread is
\* constructing a facade for the same key.
GetTaggerMissLocked(th) ==
    /\ requests[th].pc = "lookup"
    /\ ~InCache(requests[th].key, taggers)
    /\ \A other \in Threads \ {th} :
          ~(requests[other].pc \in {"construct", "fallback"}
            /\ requests[other].key = requests[th].key)
    /\ requests' = [requests EXCEPT ![th].pc = "construct", ![th].hit = FALSE]
    /\ UNCHANGED <<taggers, constructions, facadeVars>>

\* get_tagger: `if model_type not in taggers` finds no such key.
GetTaggerMiss(th) ==
    /\ requests[th].pc = "lookup"
    /\ ~InCache(requests[th].key, taggers)
    /\ requests' = [requests EXCEPT ![th].pc = "construct", ![th].hit = FALSE]
    /\ UNCHANGED <<taggers, constructions, facadeVars>>

\* The cache after a facade was stored under key k.
Stored(cache, k, id, s) == [cache EXCEPT ![k] = [id |-> id, self |-> s]]

\* get_tagger: the try block constructs the facade of the requested
\* model_type and stores it; a failure of a legacy request is raised again.
GetTaggerConstruct(th) ==
    /\ requests[th].pc = "construct"
    /\ constructions < MaxConstructions
    /\ constructions' = constructions + 1
    /\ \E env \in WebEnvs :
          LET r == requests[th]
              c == ConstructFacade(r.key, env)
          IN  IF ~c.raised
              THEN /\ taggers' = Stored(taggers, r.key, constructions', c.self)
                   /\ requests' = [requests EXCEPT
                                      ![th].pc = "return",
                                      ![th].built = Append(r.built, constructions')]
              ELSE /\ taggers' = taggers
                   /\ requests' = [requests EXCEPT ![th] =
                                      IF r.key # "legacy"
                                      THEN [r EXCEPT !.pc = "fallback"]
                                      ELSE Responded(r, 500)]
    /\ UNCHANGED facadeVars

\* Variant: the facade whose fallback construction failed is stored under
\* the requested key all the same.
GetTaggerFallbackCaching(th) ==
    /\ requests[th].pc = "fallback"
    /\ constructions < MaxConstructions
    /\ constructions' = constructions + 1
    /\ \E env \in WebEnvs :
          LET r == requests[th]
              c == ConstructFacade("legacy", env)
          IN  /\ taggers' = Stored(taggers, r.key, constructions', c.self)
              /\ requests' = [requests EXCEPT ![th] =
                                 IF ~c.raised
                                 THEN [r EXCEPT !.pc = "return",
                                                !.built = Append(r.built, constructions')]
                                 ELSE Responded(r, 500)]
    /\ UNCHANGED facadeVars

\* get_tagger: the except block constructs a legacy facade and stores it
\* under the requested key; its exception leaves get_tagger.
GetTaggerFallback(th) ==
    /\ requests[th].pc = "fallback"
    /\ constructions < MaxConstructions
    /\ constructions' = constructions + 1
    /\ \E env \in WebEnvs :
          LET r == requests[th]
              c == ConstructFacade("legacy", env)
          IN  IF ~c.raised
              THEN /\ taggers' = Stored(taggers, r.key, constructions', c.self)
                   /\ requests' = [requests EXCEPT
                                      ![th].pc = "return",
                                      ![th].built = Append(r.built, constructions')]
              ELSE /\ taggers' = taggers
                   /\ requests' = [requests EXCEPT ![th] = Responded(r, 500)]
    /\ UNCHANGED facadeVars

\* get_tagger: return taggers[model_type]
GetTaggerReturn(th) ==
    /\ requests[th].pc = "return"
    /\ requests' = [requests EXCEPT ![th].pc = "handle",
                                    ![th].tagger = taggers[requests[th].key]]
    /\ UNCHANGED <<taggers, constructions, facadeVars>>

\* The backend's behaviour during one request: it raises on every call or
\* answers every token.
WebOracle(x, raises) == IF raises THEN RaisingOracle ELSE PlainOracle(x)

\* tag_sentence after get_tagger: tagger.tag and tagger.get_model_info
TagSentenceBody(r, raises) ==
    LET sentence == Strip(r.req.sentence)
        t == TagCall(r.tagger.self, Str(sentence), WebOracle(Str(sentence), raises))
        info == ModelInfo(r.tagger.self)
    IN  IF t.status # "ok" \/ info.status # "ok"
        THEN [Responded(r, 500) EXCEPT !.response.tag_calls = 1]
        ELSE [r EXCEPT !.pc = "done",
                       !.response =
                           [status |-> 200,
                            results |-> <<[sentence |-> sentence, result |-> t.result]>>,
                            total_sentences |-> 0,
                            model_type |-> info.info.model_type,
                            tag_calls |-> 1]]

\* Variant: every entry of the list is tagged.
IsTaggableAlways(x) == TRUE

\* isinstance(sentence, str) and sentence.strip()
IsTaggable(x) == IsStr(x) /\ Strip(x.text) # <<>>

\* The for loop of tag_batch: the entries that pass the test are tagged in
\* order; an exception of tag leaves the loop and no result is kept.
WebBatchLoop(s, sentences, raises) ==
    LET taggable == SelectSeq(sentences, IsTaggable)
        stripped(i) == Str(Strip(taggable[i].text))
        t(i) == TagCall(s, stripped(i), WebOracle(stripped(i), raises))
    IN  IF \E i \in 1..Len(taggable) : t(i).status # "ok"
        THEN [status |-> "Exception", results |-> <<>>]
        ELSE [status |-> "ok",
              results |-> [i \in 1..Len(taggable) |->
                              [sentence |-> stripped(i).text,
                               result |-> t(i).result]]]

\* tag_batch after get_tagger: the loop and tagger.get_model_info
TagBatchBody(r, raises) ==
    LET b == WebBatchLoop(r.tagger.self, r.req.sentences, raises)
        info == ModelInfo(r.tagger.self)
    IN  IF b.status # "ok" \/ info.status # "ok"
        THEN Responded(r, 500)
        ELSE [r EXCEPT !.pc = "done",
                       !.response =
                           [status |-> 200,
                            results |-> b.results,
                            total_sentences |-> Len(b.results),
                            model_type |-> info.info.model_type,
                            tag_calls |-> Len(b.results)]]

\* The handler uses the facade get_tagger returned and builds its response.
Handle(th) ==
    /\ requests[th].pc = "handle"
    /\ \E raises \in BOOLEAN :
          requests' = [requests EXCEPT ![th] =
                          IF requests[th].req.kind = "tag"
                          THEN TagSentenceBody(requests[th], raises)
                          ELSE TagBatchBody(requests[th], raises)]
    /\ UNCHANGED <<taggers, constructions, facadeVars>>

\* The response is sent and the thread is free for the next request.
Respond(th) ==
    /\ requests[th].pc = "done"
    /\ requests' = [requests EXCEPT ![th] = Idle]
    /\ UNCHANGED <<taggers, constructions, facadeVars>>

\* The steps of get_tagger and of the handler after it, on thread th.
Serve(th) ==
    \/ GetTaggerHit(th)
    \/ GetTaggerMiss(th)
    \/ GetTaggerConstruct(th)
    \/ GetTaggerFallback(th)
    \/ GetTaggerReturn(th)
    \/ Handle(th)
    \/ Respond(th)

\* One client: each request is answered before the next arrives.
NextWeb ==
    \/ \E req \in WebTagRequests : Receive("t1", req)
    \/ \E req \in WebBatchRequests : Receive("t1", req)
    \/ Serve("t1")

SpecWeb == Init /\ [][NextWeb]_vars

\* Two clients on the threaded server (app.run(..., threaded=True)).
NextWebRace ==
    \E th \in Threads :
        \/ \E req \in RaceRequests : Receive(th, req)
        \/ Serve(th)

SpecWebRace == Init /\ [][NextWebRace]_vars

\* ------------------------------------------------------ claims on the web
\* The cache holds a facade under key k.
HasEntry(k) == taggers[k].id # 0

\* C17: with one request at a time, get_tagger(k) constructs a facade only
\* when the cache has no entry for k; once an entry exists it never
\* changes, a later get_tagger(k) goes straight to returning it, constructs
\* nothing, and hands out that very instance; the entries of the other
\* keys are left as they were.
C17_CacheConstructsOnce ==
    [][\A th \in Threads :
          LET r == requests[th] IN
          /\ \A k \in WebSelectors : HasEntry(k) => taggers'[k] = taggers[k]
          /\ \A k \in WebSelectors : (r.pc # "idle" /\ k # r.key) => taggers'[k] = taggers[k]
          /\ (constructions' # constructions /\ requests'[th] # r) =>
                (r.pc \in {"construct", "fallback"} /\ ~HasEntry(r.key))
          /\ (r.pc = "lookup" /\ HasEntry(r.key) /\ requests'[th] # r) =>
                (requests'[th].pc = "return" /\ constructions' = constructions)
          /\ (r.pc = "return" /\ requests'[th] # r) =>
                /\ requests'[th].tagger = taggers[r.key]
                /\ requests'[th].tagger.id # 0
                /\ r.built = <<>> => requests'[th].tagger = r.cache_before[r.key]
      ]_vars

\* A request found the berturk entry an earlier request had stored and was
\* handed that instance without constructing, while the legacy key has no
\* entry.
C17_Witness ==
    LET r == requests["t1"] IN
    /\ r.pc = "handle"
    /\ r.key = "berturk"
    /\ r.hit
    /\ r.built = <<>>
    /\ r.tagger = taggers["berturk"]
    /\ r.tagger.id = 1
    /\ constructions = 1
    /\ ~HasEntry("legacy")

\* C18: get_tagger has no guard: a thread that looks up a key the cache
\* does not hold goes on to construct whatever the other threads are
\* doing, so two requests for the same uncached key, handled at the same
\* time, can both see the miss and both construct a facade.
C18_MissIsUnguarded ==
    \A th \in Threads :
        (requests[th].pc = "lookup" /\ ~HasEntry(requests[th].key)) =>
            ENABLED GetTaggerMiss(th)

\* Both threads found no berturk entry when their request arrived, and
\* each has constructed a facade for that key.
C18_Witness ==
    /\ \A th \in Threads :
          /\ requests[th].key = "berturk"
          /\ ~requests[th].hit
          /\ requests[th].cache_before["berturk"].id = 0
          /\ requests[th].pc \in {"return", "handle", "done"}
          /\ requests[th].built # <<>>
    /\ requests["t1"].built # requests["t2"].built

\* C19: POST /api/batch takes every request with 1 to 100 sentences on to
\* get_tagger, and answers a request with more than 100 with status 400
\* before any facade is looked up, constructed or called, leaving the cache
\* as it was.
C19_BatchLimit ==
    \A th \in Threads :
        LET r == requests[th]
            n == Len(r.req.sentences)
        IN  (r.req.kind = "batch" /\ r.req.has_data) =>
               /\ n > 100 =>
                     /\ r.pc = "done"
                     /\ r.response.status = 400
                     /\ r.key = "none"
                     /\ r.built = <<>>
                     /\ r.tagger = NoInstance
                     /\ r.response.tag_calls = 0
                     /\ taggers = r.cache_before
               /\ (n >= 1 /\ n <= 100) =>
                     /\ r.key = RequestModelType(r.req)
                     /\ r.pc = "done" => r.response.status \in {200, 500}
                     /\ (r.pc = "done" /\ r.response.status = 500) =>
                           r.tagger = NoInstance
                     /\ (r.pc = "done" /\ r.response.status = 200) =>
                           r.tagger = taggers[r.key]

\* With a facade already in the cache, a request with 101 sentences was
\* answered 400.
C19_Witness ==
    LET r == requests["t1"] IN
    /\ r.req.kind = "batch"
    /\ Len(r.req.sentences) = 101
    /\ r.pc = "done"
    /\ r.response.status = 400
    /\ HasEntry("legacy")

\* ------------------------------------------------ the alignment alone
\* Words of the sentences tagged by the fine-tuned pipeline.
AlignWords == { <<"A", "l", "i">>, <<"e", "v", "d", "e">>, <<".">> }

AlignSentences ==
    { Join(ws, <<" ">>) : ws \in UNION { [1..k -> AlignWords] : k \in 0..MaxWords } }

\* Entries the pipeline returns: the ones above and one whose surface form
\* is capitalised and longer than the word it stands for.
AlignEntries ==
    Entries
    \cup { [word |-> <<"E", "v", "d", "e", "k", "i">>, entity_group |-> "LABEL_0"] }

\* What the pipeline does in one call: it raises, or returns entries.
AlignOracles ==
    {RaisingOracle}
    \cup { [raises |-> FALSE, tags |-> <<>>, entries |-> e] :
             e \in UNION { [1..k -> AlignEntries] : k \in 0..MaxEntries } }

\* A facade with the fine-tuned pipeline loaded, its metadata with or
\* without id2tag.
InitAlign ==
    /\ phase = "loaded"
    /\ requested = "fine_tuned"
    /\ \E meta \in {"full", "no_id2tag"} :
          LET a == [dir |-> TRUE, meta |-> meta, weights |-> "loadable"]
              r == LoadFineTunedModel(NewFacade("fine_tuned", "None"), a)
          IN  /\ self = r.self
              /\ loadLog = <<LogEntry("fine_tuned", "artifacts", r)>>
    /\ call = NoCall
    /\ InitWeb

\* tagger.tag(sentence) with the pipeline behaving as o
TagFineTunedPipeline(sentence, o) ==
    /\ call.op = "none"
    /\ LET r == TagCall(self, Str(sentence), o) IN
       call' = [op |-> "tag", input |-> Str(sentence), oracle |-> o,
                status |-> r.status, result |-> r.result, path |-> r.path,
                invoked |-> r.invoked, failed |-> r.failed]
    /\ UNCHANGED <<phase, requested, self, loadLog, webVars>>

NextAlign ==
    \/ \E sentence \in AlignSentences, o \in AlignOracles :
          TagFineTunedPipeline(sentence, o)
    \/ Return

SpecAlign == InitAlign /\ [][NextAlign]_vars

\* The call at hand went through the alignment loop.
Aligned == call.op = "tag" /\ call.path = "fine_tuned_pipeline"

\* The loop variables at each word of the call at hand.
Trace == AlignTrace(Split(call.input.text), 1, call.oracle.entries, 0)

\* C21: in the alignment the cursor never decreases, the entries matched
\* are strictly later for later words (so no entry is matched to two
\* words), and a matched word takes the first entry at or after the cursor
\* that contains the word or is contained in it, letter case ignored.
C21_CursorNeverGoesBack ==
    Aligned =>
        LET tr == Trace
            results == call.oracle.entries
        IN  /\ Len(call.result) = Len(tr)
            /\ \A k \in 1..(Len(tr) - 1) : tr[k + 1].cursor >= tr[k].cursor
            /\ \A j, k \in DOMAIN tr :
                  (j < k /\ tr[j].match # 0 /\ tr[k].match # 0) =>
                      tr[j].match < tr[k].match
            /\ \A k \in DOMAIN tr :
                  tr[k].match # 0 =>
                      /\ tr[k].match > tr[k].cursor
                      /\ EntryMatches(tr[k].word, results[tr[k].match])
                      /\ \A i \in (tr[k].cursor + 1)..(tr[k].match - 1) :
                            ~EntryMatches(tr[k].word, results[i])
                      /\ call.result[k] =
                            <<tr[k].word, EntryTag(results[tr[k].match], Id2Tag)>>

\* "evde" took the first entry, whose surface form "Evdeki" contains it,
\* and "Ali" after it took the second.
C21_Witness ==
    /\ Aligned
    /\ Len(Trace) = 2
    /\ Len(call.oracle.entries) = 2
    /\ Trace[1].word = <<"e", "v", "d", "e">>
    /\ call.oracle.entries[1].word = <<"E", "v", "d", "e", "k", "i">>
    /\ Trace[1].match = 1
    /\ Trace[2].cursor = 1
    /\ Trace[2].match = 2

\* C22: in the alignment a word reached after the entries are used up, or
\* matched by none of the remaining entries, gets the enhanced rule table's
\* tag; when none matched the cursor stays, so a later word can still take
\* one of the remaining entries.
C22_UnmatchedWordGetsRuleTag ==
    Aligned =>
        LET tr == Trace
            results == call.oracle.entries
        IN  /\ Len(call.result) = Len(tr)
            /\ \A k \in DOMAIN tr :
                  /\ tr[k].match = 0 <=>
                        \A i \in (tr[k].cursor + 1)..Len(results) :
                            ~EntryMatches(tr[k].word, results[i])
                  /\ tr[k].match = 0 =>
                        /\ call.result[k] = <<tr[k].word, EnhancedPosTag(tr[k].word)>>
                        /\ k < Len(tr) => tr[k + 1].cursor = tr[k].cursor
                  /\ tr[k].match # 0 =>
                        call.result[k][2] = EntryTag(results[tr[k].match], Id2Tag)

\* No entry matched "." so it got Punc and the cursor stayed at 0; "Ali"
\* after it took the first entry.
C22_Witness ==
    /\ Aligned
    /\ Len(Trace) = 2
    /\ Trace[1].word = <<".">>
    /\ Trace[1].match = 0
    /\ call.result[1] = << <<".">>, "Punc" >>
    /\ Trace[2].cursor = 0
    /\ Trace[2].match = 1
    /\ call.result[2] = << <<"A", "l", "i">>, "Noun_Nom" >>

\* C26: in the alignment, once a word has taken entry i no later word
\* takes entry i or an entry before it, passed-over entries included; after
\* a word took the last entry every following word gets the rule table's
\* tag, even when a passed-over entry would have matched it.
C26_SkippedEntriesAreLost ==
    Aligned =>
        LET tr == Trace
            results == call.oracle.entries
        IN  \A k \in DOMAIN tr :
               tr[k].match # 0 =>
                  /\ \A j \in DOMAIN tr :
                        j > k => (tr[j].match = 0 \/ tr[j].match > tr[k].match)
                  /\ tr[k].match = Len(results) =>
                        \A j \in DOMAIN tr :
                           j > k =>
                              /\ tr[j].match = 0
                              /\ call.result[j] =
                                    <<tr[j].word, EnhancedPosTag(tr[j].word)>>

\* "Ali" took the second and last entry; "evde" then got the rule table's
\* Noun_Loc although the first entry, "ev", matches it.
C26_Witness ==
    /\ Aligned
    /\ Len(call.oracle.entries) = 2
    /\ call.oracle.entries[1].word = <<"e", "v">>
    /\ Trace[1].match = 2
    /\ Len(Trace) = 2
    /\ Trace[2].word = <<"e", "v", "d", "e">>
    /\ EntryMatches(Trace[2].word, call.oracle.entries[1])
    /\ Trace[2].match = 0
    /\ call.result[2] = << <<"e", "v", "d", "e">>, "Noun_Loc" >>

\* ------------------------------------- the fine-tuned model directory
\* The files a model directory can hold.
DirListings == SUBSET (WeightFiles \cup {"metadata.json"})

\* Sentences tagged after the load.
SimulationSentences ==
    { <<"A", "l", "i", " ", "e", "v", "d", "e">>, <<".">> }

\* ModernTurkishPOSTagger(model_type="fine_tuned") is being constructed.
InitSimulation ==
    /\ phase = "loading"
    /\ requested = "fine_tuned"
    /\ self = NewFacade("fine_tuned", "None")
    /\ loadLog = <<>>
    /\ call = NoCall
    /\ InitWeb

\* The try block of _load_model on a model directory with the given files.
LoadFineTunedFrom(listing, kind, loadability) ==
    /\ phase = "loading"
    /\ LET r == LoadFineTunedModel(self, ArtifactOf(listing, kind, loadability)) IN
       /\ self' = r.self
       /\ phase' = AfterRequestedLoad(r.raised)
       /\ loadLog' = Append(loadLog,
                        LogEntry("fine_tuned",
                                 [listing |-> listing, kind |-> kind,
                                  loadability |-> loadability], r))
    /\ UNCHANGED <<requested, call, webVars>>

\* tagger.tag(sentence); the backend, if one is called, raises or answers.
TagLoaded(sentence, raises) ==
    /\ phase = "loaded"
    /\ call.op = "none"
    /\ LET x == Str(sentence)
           o == IF ~ReachesBackend(self, x) THEN NoOracle
                ELSE IF raises THEN RaisingOracle ELSE PlainOracle(x)
           r == TagCall(self, x, o)
       IN  call' = [op |-> "tag", input |-> x, oracle |-> o, status |-> r.status,
                    result |-> r.result, path |-> r.path, invoked |-> r.invoked,
                    failed |-> r.failed]
    /\ UNCHANGED <<phase, requested, self, loadLog, webVars>>

NextSimulation ==
    \/ \E listing \in DirListings, kind \in MetaKinds,
          loadability \in {"loadable", "unloadable"} :
          LoadFineTunedFrom(listing, kind, loadability)
    \/ LoadFallback
    \/ \E sentence \in SimulationSentences, raises \in BOOLEAN :
          TagLoaded(sentence, raises)
    \/ Return

SpecSimulation == InitSimulation /\ [][NextSimulation]_vars

\* The model directory the fine-tuned loader found.
Found == loadLog[1].found

\* The directory holds metadata.json and none of the weight files.
MetadataOnly ==
    /\ "metadata.json" \in Found.listing
    /\ Found.listing \cap WeightFiles = {}

\* The directory holds metadata.json and at least one weight file.
MetadataAndWeights ==
    /\ "metadata.json" \in Found.listing
    /\ Found.listing \cap WeightFiles # {}

\* The facade is a fine-tuned one without a pipeline, and tag gives every
\* word the enhanced table's tag without calling a backend.
InSimulationMode ==
    /\ phase = "loaded"
    /\ Len(loadLog) = 1
    /\ self.model_type = "fine_tuned"
    /\ self.fine_tuned_pipeline = "none"
    /\ call.op = "tag" =>
          /\ call.oracle = NoOracle
          /\ ~call.failed
          /\ call.result = TagEnhancedSimulation(call.input.text)

\* The facade is a fine-tuned one with the pipeline.
InPipelineMode ==
    /\ phase = "loaded"
    /\ Len(loadLog) = 1
    /\ self.model_type = "fine_tuned"
    /\ self.fine_tuned_pipeline = "pipe"

\* C23 as stated: with the model directory and metadata.json there and no
\* weight file, construction succeeds as fine-tuned in simulation mode and
\* tag gives every word its enhanced rule-table tag without a model call;
\* with any one weight file there the facade is in pipeline mode instead.
C23_SimulationWithoutWeights ==
    loadLog # <<>> =>
        /\ MetadataOnly => InSimulationMode
        /\ MetadataAndWeights => InPipelineMode

\* C23 as amended: the same holds when the metadata carries the entries
\* the loader logs (eval_results and pos_tags) and, for the pipeline mode,
\* the weights load.  Otherwise the load raises after the files were found,
\* and the legacy loader runs.
C23_SimulationNeedsLoggedMetadata ==
    loadLog # <<>> =>
        /\ (MetadataOnly /\ MetaLogsCleanly(Found.kind)) => InSimulationMode
        /\ (MetadataAndWeights /\ MetaLogsCleanly(Found.kind)
              /\ Found.loadability = "loadable") => InPipelineMode
        /\ ("metadata.json" \in Found.listing
              /\ (~MetaLogsCleanly(Found.kind)
                  \/ (Found.listing \cap WeightFiles # {}
                      /\ Found.loadability = "unloadable"))) =>
              /\ loadLog[1].error \in {"KeyError", "OSError"}
              /\ phase \in {"fallback", "loaded", "failed"}
              /\ phase = "loaded" => self.model_type = "legacy"

\* The directory held only metadata.json; the facade is in simulation mode
\* and tagged "Ali evde" with the enhanced table.
C23_Witness ==
    /\ loadLog # <<>>
    /\ Found.listing = {"metadata.json"}
    /\ InSimulationMode
    /\ call.op = "tag"
    /\ call.result = << << <<"A", "l", "i">>, "Adj" >>,
                        << <<"e", "v", "d", "e">>, "Noun_Loc" >> >>

\* C25: on a fine-tuned facade an exception of the pipeline, or of the
\* alignment after it, is caught inside the fine-tuned routine and answered
\* with the enhanced rule table's tagging of the sentence; the except block
\* of tag with the simple table is not reached.
C25_FineTunedCatchesItsOwn ==
    (call.op = "tag" /\ self.model_type = "fine_tuned"
       /\ ~IsBlank(call.input.text)) =>
        /\ call.status = "ok"
        /\ call.path \in {"fine_tuned_pipeline", "enhanced_simulation"}
        /\ (call.oracle.raises \/ self.fine_tuned_metadata = "no_id2tag") =>
              /\ call.failed
              /\ call.path = "enhanced_simulation"
              /\ call.result = TagEnhancedSimulation(call.input.text)
        /\ (~call.oracle.raises /\ self.fine_tuned_metadata # "no_id2tag") =>
              (call.path = "fine_tuned_pipeline" /\ ~call.failed)

\* The pipeline raised and "Ali evde" was tagged Adj and Noun_Loc by the
\* enhanced table (the simple table would give Noun for "Ali").
C25_Witness ==
    /\ call.op = "tag"
    /\ self.model_type = "fine_tuned"
    /\ self.fine_tuned_pipeline = "pipe"
    /\ call.oracle.raises
    /\ call.result = << << <<"A", "l", "i">>, "Adj" >>,
                        << <<"e", "v", "d", "e">>, "Noun_Loc" >> >>

\* ------------------------------------------- the classifiers, one word
\* Longest token drawn from the punctuation characters alone.
MaxPuncLen == 2

\* Tokens made of punctuation characters only: every one up to the bound,
\* and two runs of one repeated character.
PuncTokens ==
    LET chars == { PunctuationLiteral[i] : i \in DOMAIN PunctuationLiteral } IN
    UNION { [1..n -> chars] : n \in 1..MaxPuncLen }
    \cup { <<"!", "!", "!">>, <<".", ".", ".">> }

\* Words that satisfy more than one check of a classifier, words that
\* satisfy one, and a word that satisfies none.
PrecedenceWords ==
    { <<"s", "o", "n", "r", "a">>, <<"S", "o", "n", "r", "a">>,
      <<"ou", "n", "c", "e">>, <<"h", "i", "cc">>, <<"b", "i", "r">>,
      <<"B", "i", "r">>, <<"y", "e", "d", "i">>, <<"e", "k", "m", "e", "k">>,
      <<"d", "e">>, <<"b", "u", "n", "u">>, <<"i", "cc", "i", "n">>,
      <<"a", "l", "i">>, <<"b", "e", "n">>, <<"B", "e", "n">>,
      <<"g", "e", "l", "d", "i">>, <<"e", "v", "d", "e">>,
      <<"e", "v", "i", "n">>, <<"g", "uu", "z", "e", "l">>,
      <<"t", "u", "z", "l", "u">>, <<"e", "v">>, <<"1", "2">>,
      <<"k", "e", "d", "i", "a">>, <<"a", ".">> }

\* tagger._get_simple_pos_tag(word)
GetSimplePosTag(word) ==
    /\ call.op = "none"
    /\ call' = [op |-> "_get_simple_pos_tag", input |-> Str(word),
                oracle |-> NoOracle, status |-> "ok",
                result |-> << <<word, SimplePosTag(word)>> >>,
                path |-> "simple_rules", invoked |-> FALSE, failed |-> FALSE]
    /\ UNCHANGED <<phase, requested, self, loadLog, webVars>>

\* tagger._get_enhanced_pos_tag(word)
GetEnhancedPosTag(word) ==
    /\ call.op = "none"
    /\ call' = [op |-> "_get_enhanced_pos_tag", input |-> Str(word),
                oracle |-> NoOracle, status |-> "ok",
                result |-> << <<word, EnhancedPosTag(word)>> >>,
                path |-> "enhanced_simulation", invoked |-> FALSE,
                failed |-> FALSE]
    /\ UNCHANGED <<phase, requested, self, loadLog, webVars>>

NextWord ==
    \/ \E word \in PuncTokens \cup PrecedenceWords : GetSimplePosTag(word)
    \/ \E word \in PuncTokens \cup PrecedenceWords : GetEnhancedPosTag(word)
    \/ Return

SpecWord == InitRules /\ [][NextWord]_vars

\* A classifier was called on one word.
Classified == call.op \in {"_get_simple_pos_tag", "_get_enhanced_pos_tag"}
ClassifiedWord == call.input.text
ClassifiedTag == call.result[1][2]

\* The contiguous substrings of the punctuation literal.
PuncSubstrings ==
    { SubSeq(PunctuationLiteral, i, j) :
        i \in 1..Len(PunctuationLiteral), j \in 1..Len(PunctuationLiteral) }
    \ {<<>>}

InPuncLiteral(word) == word \in PuncSubstrings

\* Tag of the first check that holds, for checks given as <<holds, tag>>.
FirstSatisfied(checks) ==
    checks[CHOOSE i \in DOMAIN checks :
             checks[i][1] /\ \A j \in 1..(i - 1) : ~checks[j][1]][2]

\* The checks of the simple table after punctuation and before the default.
SimpleLaterChecks(word) ==
    LET w == Lower(word) IN
    << <<w \in SimplePronouns, "Pron">>,
       <<w \in SimpleConjunctions, "Conj">>,
       <<w \in SimpleAdverbs, "Adv">>,
       <<w \in SimplePostpositions, "Postp">>,
       <<w \in SimpleDeterminers, "Det">>,
       <<IsDigit(w) \/ w \in SimpleNumberWords, "Num">>,
       <<EndsWithAny(w, SimpleVerbSuffixes), "Verb">>,
       <<EndsWithAny(w, SimpleAdjSuffixes) \/ w \in SimpleAdjectives, "Adj">>,
       <<w \in SimpleCommonNouns, "Noun">>,
       <<TRUE, "Noun">> >>

\* The checks of the enhanced table after punctuation.
EnhancedLaterChecks(word) ==
    LET w == Lower(word) IN
    << <<w \in EnhPronouns, "Pron">>,
       <<w \in EnhConjunctions, "Conj">>,
       <<w \in EnhAdverbs, "Adv">>,
       <<w \in EnhPostpositions, "Postp">>,
       <<EndsWithAny(w, EnhVerbSuffixes), "Verb">>,
       <<EndsWithAny(w, EnhAblSuffixes), "Noun_Abl">>,
       <<EndsWithAny(w, EnhDatSuffixes), "Noun_Dat">>,
       <<EndsWithAny(w, EnhAccSuffixes), "Noun_Acc">>,
       <<EndsWithAny(w, EnhGenSuffixes), "Noun_Gen">>,
       <<EndsWithAny(w, EnhLocSuffixes), "Noun_Loc">>,
       <<EndsWithAny(w, EnhAdjSuffixes) \/ w \in EnhAdjectives, "Adj">>,
       <<TRUE, "Noun_Nom">> >>

PuncCheck(word) == << <<InPuncLiteral(word), "Punc">> >>

\* A listed name in any casing, or a capitalised word longer than two
\* characters.
ProperNounCheck(word) ==
    << <<Lower(word) \in SimpleProperNouns \/ IsCapitalisedLong(word),
         "Noun">> >>

\* C24 as stated: in both classifiers the tag is that of the first satisfied
\* check in the order punctuation, closed-class lists, verb suffixes, case
\* suffixes (enhanced only), adjectives, common nouns, default, and nothing
\* but punctuation precedes the closed-class lists.
C24_ClaimedOrder ==
    /\ call.op = "_get_simple_pos_tag" =>
         ClassifiedTag = FirstSatisfied(PuncCheck(ClassifiedWord)
                                        \o SimpleLaterChecks(ClassifiedWord))
    /\ call.op = "_get_enhanced_pos_tag" =>
         ClassifiedTag = FirstSatisfied(PuncCheck(ClassifiedWord)
                                        \o EnhancedLaterChecks(ClassifiedWord))

\* C24 amended: the enhanced classifier follows the stated order; the simple
\* classifier follows it with a proper-noun check (a listed name, or a
\* capitalised word longer than two characters, tagged Noun) between
\* punctuation and the closed-class lists.
C24_OrderWithProperNouns ==
    /\ call.op = "_get_simple_pos_tag" =>
         ClassifiedTag = FirstSatisfied(PuncCheck(ClassifiedWord)
                                        \o ProperNounCheck(ClassifiedWord)
                                        \o SimpleLaterChecks(ClassifiedWord))
    /\ call.op = "_get_enhanced_pos_tag" =>
         ClassifiedTag = FirstSatisfied(PuncCheck(ClassifiedWord)
                                        \o EnhancedLaterChecks(ClassifiedWord))

\* A capitalised pronoun is Noun in the simple table, and a word that is a
\* conjunction and ends in a locative suffix is Conj in the enhanced one.
C24_Witness ==
    \/ /\ call.op = "_get_simple_pos_tag"
       /\ ClassifiedWord = <<"B", "e", "n">>
       /\ ClassifiedTag = "Noun"
    \/ /\ call.op = "_get_enhanced_pos_tag"
       /\ ClassifiedWord = <<"d", "e">>
       /\ ClassifiedTag = "Conj"

\* Closed-class lists of each table in the order they are checked.
SimpleClosedLists ==
    << <<SimplePronouns, "Pron">>, <<SimpleConjunctions, "Conj">>,
       <<SimpleAdverbs, "Adv">>, <<SimplePostpositions, "Postp">>,
       <<SimpleDeterminers, "Det">>, <<SimpleNumberWords, "Num">> >>

EnhancedClosedLists ==
    << <<EnhPronouns, "Pron">>, <<EnhConjunctions, "Conj">>,
       <<EnhAdverbs, "Adv">>, <<EnhPostpositions, "Postp">> >>

\* The word as written is in the lists at positions i < j: it gets the tag
\* of list i; in any casing it never gets the tag of list j.
FirstListWins(lists, word, tag) ==
    \A i, j \in DOMAIN lists :
        (i < j /\ Lower(word) \in lists[i][1] /\ Lower(word) \in lists[j][1]) =>
            /\ tag # lists[j][2]
            /\ (word \in lists[i][1]
                /\ \A k \in 1..(i - 1) : word \notin lists[k][1]) =>
                   tag = lists[i][2]

Sonra == <<"s", "o", "n", "r", "a">>
Once == <<"ou", "n", "c", "e">>
Hic == <<"h", "i", "cc">>
Bir == <<"b", "i", "r">>

\* C27: a word in more than one closed-class list of a table gets the tag of
\* the list checked first and never the later list's tag: sonra and once are
\* Adv in both tables, and in the simple table hic is Adv and bir is Det.
C27_FirstListWins ==
    /\ call.op = "_get_simple_pos_tag" =>
         /\ FirstListWins(SimpleClosedLists, ClassifiedWord, ClassifiedTag)
         /\ ClassifiedWord \in {Sonra, Once, Hic} => ClassifiedTag = "Adv"
         /\ ClassifiedWord = Bir => ClassifiedTag = "Det"
         /\ Lower(ClassifiedWord) \in {Sonra, Once} => ClassifiedTag # "Postp"
         /\ Lower(ClassifiedWord) = Hic => ClassifiedTag # "Det"
         /\ Lower(ClassifiedWord) = Bir => ClassifiedTag # "Num"
    /\ call.op = "_get_enhanced_pos_tag" =>
         /\ FirstListWins(EnhancedClosedLists, ClassifiedWord, ClassifiedTag)
         /\ ClassifiedWord \in {Sonra, Once} => ClassifiedTag = "Adv"
         /\ Lower(ClassifiedWord) \in {Sonra, Once} => ClassifiedTag # "Postp"

C27_Witness ==
    /\ call.op = "_get_simple_pos_tag"
    /\ ClassifiedWord = Bir
    /\ ClassifiedWord \in SimpleDeterminers \cap SimpleNumberWords
    /\ ClassifiedTag = "Det"

\* C28: in both tables a token is Punc exactly when it is a contiguous
\* substring of the punctuation literal: each listed character and the runs
\* ".," and "()" are Punc, while "!!!" and "..." are not and get the default
\* tag of the later rules.
C28_PuncIffSubstring ==
    Classified =>
        /\ ClassifiedTag = "Punc" <=> InPuncLiteral(ClassifiedWord)
        /\ (\E i \in DOMAIN PunctuationLiteral :
               ClassifiedWord = <<PunctuationLiteral[i]>>) =>
              ClassifiedTag = "Punc"
        /\ ClassifiedWord \in {<<".", ",">>, <<"(", ")">>} =>
              ClassifiedTag = "Punc"
        /\ ClassifiedWord \in {<<"!", "!", "!">>, <<".", ".", ".">>} =>
              ClassifiedTag \in {"Noun", "Noun_Nom"}

C28_Witness ==
    /\ call.op = "_get_enhanced_pos_tag"
    /\ ClassifiedWord = <<"!", "!", "!">>
    /\ ClassifiedTag = "Noun_Nom"

\* ------------------------------------------- more claims on the web
\* The request of the one client of SpecWeb.
Client == requests["t1"]

\* C29: when the construction for key k fails and the legacy fallback
\* construction fails too (for k = legacy the exception is raised again at
\* once), nothing is stored under k, the cache is as the request found it,
\* the response is an error, and a request that finds no entry for its key
\* can only go on to construct.
C29_FailedLoadNotCached ==
    [][ /\ (Client.pc \in {"construct", "fallback"} /\ Client'.pc = "done") =>
              /\ taggers' = taggers
              /\ taggers' = Client.cache_before
              /\ ~HasEntry(Client.key)'
              /\ Client'.built = <<>>
              /\ Client'.response.status = 500
        /\ (Client.pc = "lookup" /\ ~HasEntry(Client.key)
            /\ Client' # Client) =>
              Client'.pc = "construct" ]_vars

\* Both constructions of a berturk request failed: the response is an
\* error and the cache holds nothing.
C29_Witness ==
    /\ Client.pc = "done"
    /\ Client.key = "berturk"
    /\ ~Client.hit
    /\ constructions = 2
    /\ Client.response.status = 500
    /\ taggers = EmptyCache

\* A string with a character that is no whitespace.
NonBlankString(x) ==
    /\ x.type = "str"
    /\ \E i \in DOMAIN x.text : x.text[i] \notin Whitespace

\* The stripped non-blank strings of a list, in the order of the list.
KeptSentences(sentences) ==
    LET kept == SelectSeq(sentences, NonBlankString) IN
    [i \in 1..Len(kept) |-> Strip(kept[i].text)]

\* The batch handler came back from get_tagger with a facade and answered.
BatchAnswered ==
    /\ Client.pc = "done"
    /\ Client.req.kind = "batch"
    /\ Client.tagger.id # 0

\* C30: POST /api/batch tags exactly the non-blank strings of the list, in
\* input order and stripped, and skips the other entries without an error:
\* total_sentences is the number of results, which can be smaller than the
\* number of sentences sent, down to zero.
C30_BatchSkipsSilently ==
    BatchAnswered =>
        /\ Client.response.status \in {200, 500}
        /\ Client.response.status = 200 =>
              /\ [i \in 1..Len(Client.response.results) |->
                     Client.response.results[i].sentence]
                   = KeptSentences(Client.req.sentences)
              /\ Client.response.total_sentences = Len(Client.response.results)
              /\ Client.response.tag_calls = Len(Client.response.results)
              /\ Client.response.total_sentences <= Len(Client.req.sentences)
        /\ KeptSentences(Client.req.sentences) = <<>> =>
              /\ Client.response.status = 200
              /\ Client.response.total_sentences = 0

\* A list of a non-string and a padded sentence: one result, stripped.
C30_Witness ==
    /\ BatchAnswered
    /\ Client.req.sentences = <<NonText, Str(<<" ", "A", "l", "i", " ">>)>>
    /\ Client.response.status = 200
    /\ Client.response.total_sentences = 1
    /\ Len(Client.response.results) = 1
    /\ Client.response.results[1].sentence = <<"A", "l", "i">>

====
